---- MODULE Spec2Model ----
(***************************************************************************)
(* A model of the raft log engine (components/rfengine/src/engine.rs):     *)
(* RegionBatch / WriteBatch staging, RegionData.apply, the engine facade   *)
(* (open, apply, persist, reads, dependents, iterate_all_states), the WAL  *)
(* and the background worker.                                              *)
(*                                                                         *)
(* RaftLogs, WALWriter, load_epoch and Worker live in files that are not   *)
(* part of the source slice; they are modelled from the specification      *)
(* (sections 3, 4.1, 4.4, 4.5, 6) and are marked so in the model map.      *)
(***************************************************************************)
EXTENDS Integers, Sequences, FiniteSets, TLC

(***************************************************************************)
(* Bounds of the model.                                                    *)
(***************************************************************************)
\* Raft log indices range over 1..MaxIdx.
MaxIdx == 3
\* A WriteBatch is built with at most MaxWbOps builder calls.
MaxWbOps == 2
\* Number of entries a RaftLogBlock holds before a new block is started.
BlockCap == 2
\* Capacity of the task channel (sync_channel(1024) in the source).
ChanCap == 1

\* The capacity of the task channel in SpecStop.
DrainCap == 2
\* Number of write batches a run of the WAL specifications creates.
MaxWrites == 2
\* The greatest value of a byte (u8::MAX in the source, on narrower bytes).
ByteMax == 7
\* wal_size, the size at which a flush rotates the epoch file, in bytes.
WalSize == 104
\* The greatest number of shards in a vector of ShardStats.
MaxShards == 11
\* The greatest number of tables (memtables, L0 and leveled) of a shard.
MaxTables == 3

Regions == {1, 2}
Threads == {1, 2}
Terms == {1, 2}
\* State keys and values are byte strings; the empty value means delete.
StateKeys == {<<1>>}
StateVals == {<<>>, <<7>>}
DependentIds == {7}

Max(a, b) == IF a >= b THEN a ELSE b

Range(s) == {s[i] : i \in 1..Len(s)}

RECURSIVE Flatten(_)
Flatten(ss) == IF ss = <<>> THEN <<>> ELSE Head(ss) \o Flatten(Tail(ss))

(***************************************************************************)
(* RaftLogOp: one raft entry.  The body of an entry is its data field.     *)
(***************************************************************************)
RaftLogOp(i, tm) == [index |-> i, term |-> tm, data |-> <<i, tm>>]

EntriesOf(T) == {RaftLogOp(i, tm) : i \in 1..MaxIdx, tm \in T}

Entries == EntriesOf(Terms)

(***************************************************************************)
(* RaftLogs: a sequence of non-empty RaftLogBlocks, each a sequence of     *)
(* RaftLogOps.                                                             *)
(***************************************************************************)
RaftLogs_entries(l) == Flatten(l)

RaftLogs_first_index(l) == IF l = <<>> THEN 0 ELSE l[1][1].index

RaftLogs_last_index(l) ==
    IF l = <<>> THEN 0 ELSE l[Len(l)][Len(l[Len(l)])].index

\* An Option<T> is a sequence of length at most one.
None == <<>>

Some(x) == <<x>>

\* get(index): the entry at that index, or None.
RaftLogs_get(l, i) ==
    LET es == RaftLogs_entries(l)
        hit == {j \in 1..Len(es) : es[j].index = i}
    IN IF hit = {} THEN None ELSE Some(es[CHOOSE j \in hit : TRUE])

\* The blocks of l cut down to the entries with lo <= index <= hi, empty
\* blocks dropped.
FilterBlocks(l, lo, hi) ==
    LET f[i \in 0..Len(l)] ==
            IF i = 0 THEN <<>>
            ELSE LET b == SelectSeq(l[i], LAMBDA e : lo <= e.index /\ e.index <= hi)
                 IN IF b = <<>> THEN f[i - 1] ELSE Append(f[i - 1], b)
    IN f[Len(l)]

\* truncate(index): discards every entry with index <= index; returns the
\* blocks wholly or partially discarded, a partial block split at the boundary.
RaftLogs_truncate(l, idx) ==
    [logs |-> FilterBlocks(l, idx + 1, RaftLogs_last_index(l)),
     blocks |-> FilterBlocks(l, 0, idx)]

\* The new entry goes to the last block while it has room.
RaftLogs_push(l, op) ==
    IF l # <<>> /\ Len(l[Len(l)]) < BlockCap
    THEN [l EXCEPT ![Len(l)] = Append(@, op)]
    ELSE Append(l, <<op>>)

\* A faulty variant of RaftLogs_append: an entry that does not follow the last index
\* is pushed without cutting the tail.
RaftLogs_append_NoCut(l, op) == [logs |-> RaftLogs_push(l, op), blocks |-> <<>>]

\* append(op): when op.index is not last_index + 1 the tail from op.index on
\* is cut, and the whole log when op leaves a gap or lies at or before
\* first_index; the entries cut are returned as blocks.
RaftLogs_append(l, op) ==
    LET first == RaftLogs_first_index(l)
        last == RaftLogs_last_index(l)
        keepTo == IF l # <<>> /\ first <= op.index - 1 /\ op.index - 1 <= last
                  THEN op.index - 1 ELSE 0
        kept == FilterBlocks(l, 0, keepTo)
        cut == FilterBlocks(l, keepTo + 1, last)
    IN [logs |-> RaftLogs_push(kept, op), blocks |-> cut]

(***************************************************************************)
(* RegionBatch (engine.rs 83-135).                                         *)
(***************************************************************************)
EmptyMap == [k \in {} |-> <<>>]

MapPut(m, k, v) == [x \in DOMAIN m \cup {k} |-> IF x = k THEN v ELSE m[x]]

MapRemove(m, k) == [x \in DOMAIN m \ {k} |-> m[x]]

RegionBatch_new(region_id) ==
    [region_id |-> region_id, truncated_idx |-> 0,
     states |-> EmptyMap, raft_logs |-> <<>>]

\* A faulty variant of PopFrontBelow: the op at idx is popped as well.
RECURSIVE PopFrontBelow_Through(_, _)
PopFrontBelow_Through(ops, idx) ==
    IF ops = <<>> \/ Head(ops).index > idx THEN ops
    ELSE PopFrontBelow_Through(Tail(ops), idx)

RECURSIVE PopFrontBelow(_, _)
PopFrontBelow(ops, idx) ==
    IF ops = <<>> \/ Head(ops).index >= idx THEN ops
    ELSE PopFrontBelow(Tail(ops), idx)

RegionBatch_truncate(b, idx) ==
    [b EXCEPT !.raft_logs = PopFrontBelow(b.raft_logs, idx),
              !.truncated_idx = idx]

RegionBatch_set_state(b, key, val) ==
    [b EXCEPT !.states = MapPut(b.states, key, val)]

\* A faulty variant of PopBackUntil: only the ops at or after idx are cut.
RECURSIVE PopBackUntil_FromIdx(_, _)
PopBackUntil_FromIdx(ops, idx) ==
    IF ops = <<>> \/ ops[Len(ops)].index < idx THEN ops
    ELSE PopBackUntil_FromIdx(SubSeq(ops, 1, Len(ops) - 1), idx)

RECURSIVE PopBackUntil(_, _)
PopBackUntil(ops, idx) ==
    IF ops = <<>> \/ ops[Len(ops)].index + 1 = idx THEN ops
    ELSE PopBackUntil(SubSeq(ops, 1, Len(ops) - 1), idx)

RegionBatch_append_raft_log(b, op) ==
    [b EXCEPT !.raft_logs = Append(PopBackUntil(b.raft_logs, op.index), op)]

(***************************************************************************)
(* WriteBatch (engine.rs 38-81): region id -> RegionBatch.                 *)
(***************************************************************************)
WriteBatch_new == [r \in {} |-> RegionBatch_new(0)]

WriteBatch_get_region(wb, region_id) ==
    IF region_id \in DOMAIN wb THEN wb
    ELSE [r \in DOMAIN wb \cup {region_id} |->
            IF r = region_id THEN RegionBatch_new(region_id) ELSE wb[r]]

WriteBatch_append_raft_log(wb, region_id, entry) ==
    LET w == WriteBatch_get_region(wb, region_id)
    IN [w EXCEPT ![region_id] = RegionBatch_append_raft_log(@, entry)]

WriteBatch_truncate_raft_log(wb, region_id, index) ==
    LET w == WriteBatch_get_region(wb, region_id)
    IN [w EXCEPT ![region_id] = RegionBatch_truncate(@, index)]

WriteBatch_set_state(wb, region_id, key, val) ==
    LET w == WriteBatch_get_region(wb, region_id)
    IN [w EXCEPT ![region_id] = RegionBatch_set_state(@, key, val)]

\* The write batches a caller can build over regions R with entries E in at
\* most n builder calls.
WbStep(S, R, E) ==
    S \cup {WriteBatch_append_raft_log(wb, r, e) : wb \in S, r \in R, e \in E}
      \cup {WriteBatch_truncate_raft_log(wb, r, i) :
                wb \in S, r \in R, i \in 1..MaxIdx}
      \cup {WriteBatch_set_state(wb, r, k, v) :
                wb \in S, r \in R, k \in StateKeys, v \in StateVals}

RECURSIVE WbBuild(_, _, _)
WbBuild(n, R, E) ==
    IF n = 0 THEN {WriteBatch_new} ELSE WbStep(WbBuild(n - 1, R, E), R, E)

\* The inputs of Spec: batches for one region, entries of one term.
RegionInputs == WbBuild(MaxWbOps, {1}, EntriesOf({1})) \ {WriteBatch_new}

(***************************************************************************)
(* RegionData (engine.rs 518-600).                                         *)
(***************************************************************************)
RegionData_new(region_id) ==
    [region_id |-> region_id, truncated_idx |-> 0, raft_logs |-> <<>>,
     states |-> EmptyMap, dependents |-> {}]

RegionData_get(rd, index) == RaftLogs_get(rd.raft_logs, index)

RegionData_term(rd, index) ==
    LET e == RaftLogs_get(rd.raft_logs, index)
    IN IF e = None THEN None ELSE Some(e[1].term)

RegionData_get_state(rd, key) ==
    IF key \in DOMAIN rd.states THEN Some(rd.states[key]) ELSE None

\* A faulty variant of need_truncate: the dependents gate is missing.
RegionData_need_truncate_NoGate(rd) ==
    LET first == RaftLogs_first_index(rd.raft_logs)
    IN first > 0 /\ rd.truncated_idx >= first

RegionData_need_truncate(rd) ==
    LET first == RaftLogs_first_index(rd.raft_logs)
    IN rd.dependents = {} /\ first > 0 /\ rd.truncated_idx >= first

\* A faulty variant of ApplyStates: an empty value is inserted like any other.
ApplyStates_KeepEmpty(states, bstates) ==
    [k \in DOMAIN states \cup DOMAIN bstates |->
        IF k \in DOMAIN bstates THEN bstates[k] ELSE states[k]]

\* The state map after the batch's states, in key order.
ApplyStates(states, bstates) ==
    [k \in (DOMAIN states \cup {x \in DOMAIN bstates : bstates[x] # <<>>})
            \ {x \in DOMAIN bstates : bstates[x] = <<>>} |->
        IF k \in DOMAIN bstates THEN bstates[k] ELSE states[k]]

\* A faulty variant of AppendOps: the ops are pushed with no conflict resolution.
RECURSIVE AppendOps_NoCut(_, _, _)
AppendOps_NoCut(l, ops, blocks) ==
    IF ops = <<>> THEN [logs |-> l, blocks |-> blocks]
    ELSE AppendOps_NoCut(RaftLogs_append_NoCut(l, Head(ops)).logs, Tail(ops), blocks)

\* Lines 566-571: the log after appending ops in order, with the blocks the
\* appends cut.
RECURSIVE AppendOps(_, _, _)
AppendOps(l, ops, blocks) ==
    IF ops = <<>> THEN [logs |-> l, blocks |-> blocks]
    ELSE LET a == RaftLogs_append(l, Head(ops))
         IN AppendOps(a.logs, Tail(ops), blocks \o a.blocks)

\* A faulty variant of RegionData_apply: the prefix is truncated to the region's old
\* truncated_idx, the batch's truncated_idx adopted afterwards.
RegionData_apply_TruncateFirst(rd, batch) ==
    LET tidx == IF rd.truncated_idx < batch.truncated_idx
                THEN batch.truncated_idx ELSE rd.truncated_idx
        tr == IF RegionData_need_truncate(rd)
              THEN RaftLogs_truncate(rd.raft_logs, rd.truncated_idx)
              ELSE [logs |-> rd.raft_logs, blocks |-> <<>>]
        ap == AppendOps(tr.logs, batch.raft_logs, tr.blocks)
    IN [data |-> [rd EXCEPT !.truncated_idx = tidx, !.raft_logs = ap.logs,
                            !.states = ApplyStates(rd.states, batch.states)],
        truncated |-> ap.blocks]

\* A faulty variant of AdoptTruncated: the batch's truncated_idx is always
\* taken.
AdoptTruncated_Always(self_idx, batch_idx) == batch_idx

\* Lines 553-555: the batch's truncated_idx is adopted when it is greater.
AdoptTruncated(self_idx, batch_idx) ==
    IF self_idx < batch_idx THEN batch_idx ELSE self_idx

\* apply(batch): the region after the batch and the truncated blocks returned.
RegionData_apply(rd, batch) ==
    LET tidx == AdoptTruncated(rd.truncated_idx, batch.truncated_idx)
        rd1 == [rd EXCEPT !.truncated_idx = tidx]
        tr == IF RegionData_need_truncate(rd1)
              THEN RaftLogs_truncate(rd1.raft_logs, rd1.truncated_idx)
              ELSE [logs |-> rd1.raft_logs, blocks |-> <<>>]
        ap == AppendOps(tr.logs, batch.raft_logs, tr.blocks)
    IN [data |-> [rd1 EXCEPT !.raft_logs = ap.logs,
                             !.states = ApplyStates(rd.states, batch.states)],
        truncated |-> ap.blocks]

(***************************************************************************)
(* The engine.                                                             *)
(***************************************************************************)
VARIABLES
    regions,     \* RfEngine.regions: region id -> RegionData
    tasks,       \* the task channel, oldest task first
    worker,      \* the background worker
    th,          \* each calling thread: its position and its write batch
    disk,        \* the epoch files, epoch id -> frames
    writer,      \* RfEngine.writer: the WAL writer and its mutex
    phase,       \* "open", "crashed" or "stopped", and how it was opened
    iter,        \* the running iterate_all_states call
    created,     \* history: how often each region id was inserted in the map
    lastWriter,  \* history: the thread that last changed each region
    released,    \* history: regions whose last dependent went, no apply since
    acked,       \* history: the write batches whose persist returned Ok
    nwrites,     \* history: number of write batches created
    cap,         \* the capacity of the task channel
    rb,          \* a RegionBatch under construction, and its encoding
    lastRead,    \* the last read call and what it returned
    poisoned,    \* the regions whose RwLock is poisoned
    kvstats      \* the columnar engine: the stats given and the stats returned

vars == <<regions, tasks, worker, th, disk, writer, phase, iter, created,
          lastWriter, released, acked, nwrites, cap, rb, lastRead, poisoned, kvstats>>

\* The variables the engine's write path leaves alone.
aux == <<cap, rb, lastRead, poisoned, kvstats>>

NoRegions == [r \in {} |-> RegionData_new(0)]

IdleThread == [pc |-> "idle", wb |-> WriteBatch_new, todo |-> {}, cur |-> 0,
               epoch_id |-> 0, pos |-> 0, released |-> {}, sent |-> 0]

NoIter == [pc |-> "off"]

Worker_new(epoches) == [alive |-> TRUE, epoches |-> epoches]

WALWriter_new(epoch_id) ==
    [epoch_id |-> epoch_id, buf |-> <<>>, pos |-> 0, owner |-> 0]

NoBatch == [self |-> RegionBatch_new(1), op |-> <<"new">>, buf |-> <<>>,
            out |-> <<>>]

NoCall == <<>>

NoStats == [input |-> <<>>, output |-> <<>>]

\* The engine opened on an empty directory, with a task channel of capacity c.
EngineInit(c) ==
    /\ regions = NoRegions
    /\ tasks = <<>>
    /\ worker = Worker_new(<<>>)
    /\ th = [t \in Threads |-> IdleThread]
    /\ disk = << <<>> >>
    /\ writer = WALWriter_new(1)
    /\ phase = [state |-> "open", from |-> "fresh", at |-> 0]
    /\ iter = NoIter
    /\ created = [r \in Regions |-> 0]
    /\ lastWriter = [r \in Regions |-> 0]
    /\ released = {}
    /\ acked = <<>>
    /\ nwrites = 0
    /\ cap = c
    /\ rb = NoBatch
    /\ lastRead = NoCall
    /\ poisoned = {}
    /\ kvstats = NoStats

Init == EngineInit(ChanCap)

Running == phase.state = "open" /\ iter.pc = "off"

(***************************************************************************)
(* RfEngine.apply (engine.rs 280-299).                                     *)
(***************************************************************************)
TruncateTask(region_id, truncated_index, truncated) ==
    [type |-> "Truncate", region_id |-> region_id,
     truncated_index |-> truncated_index, truncated |-> truncated]

\* A faulty variant of RfEngine_apply_tasks: a task is sent for every region.
RfEngine_apply_tasks_Always(region_id, res) ==
    <<TruncateTask(region_id, res.data.truncated_idx, res.truncated)>>

\* A faulty variant of RfEngine_apply_tasks: the test of the blocks is inverted.
RfEngine_apply_tasks_Inverted(region_id, res) ==
    IF res.truncated = <<>>
    THEN <<TruncateTask(region_id, res.data.truncated_idx, res.truncated)>>
    ELSE <<>>

\* Lines 286-296: the tasks apply sends for one region: a Truncate task with
\* the region's truncated_idx and the blocks, iff blocks came back.
RfEngine_apply_tasks(region_id, res) ==
    IF res.truncated # <<>>
    THEN <<TruncateTask(region_id, res.data.truncated_idx, res.truncated)>>
    ELSE <<>>

\* The region map after DashMap::insert, which replaces an entry of that key.
DashMap_insert(m, region_id, rd) ==
    [r \in DOMAIN m \cup {region_id} |-> IF r = region_id THEN rd ELSE m[r]]

\* get_or_init_region_data (361-374) with no other thread in between.
RfEngine_get_or_init_region_data(m, region_id) ==
    IF region_id \in DOMAIN m THEN m
    ELSE DashMap_insert(m, region_id, RegionData_new(region_id))

\* One round of the loop of apply (282-297) on region map m and channel c.
ApplyRegion(m, c, region_id, batch) ==
    LET m1 == RfEngine_get_or_init_region_data(m, region_id)
        res == RegionData_apply(m1[region_id], batch)
    IN [regions |-> [m1 EXCEPT ![region_id] = res.data],
        tasks |-> c \o RfEngine_apply_tasks(region_id, res)]

\* The whole loop, the regions of the batch taken in the given order.
RECURSIVE ApplyBatch(_, _, _, _)
ApplyBatch(m, c, w, order) ==
    IF order = <<>> THEN [regions |-> m, tasks |-> c]
    ELSE LET one == ApplyRegion(m, c, Head(order), w[Head(order)])
         IN ApplyBatch(one.regions, one.tasks, w, Tail(order))

\* The orders in which a HashMap may hand out the keys S.
Orders(S) ==
    {o \in [1..Cardinality(S) -> S] : \A i, j \in DOMAIN o : i # j => o[i] # o[j]}

\* apply(wb) by a caller that no other caller interleaves with; the sends
\* block while the channel is full and panic once the worker is gone.  The
\* caller keeps the batch it lent to apply.
ApplyWhole(t, w, pcAfter, counted) ==
    /\ Running
    /\ th[t].pc \in {"idle", "applied"}
    /\ counted => nwrites < MaxWrites
    /\ \E order \in Orders(DOMAIN w) :
         LET res == ApplyBatch(regions, tasks, w, order)
         IN /\ Len(res.tasks) <= cap
            /\ res.tasks # tasks => worker.alive
            /\ regions' = res.regions
            /\ tasks' = res.tasks
            /\ th' = [th EXCEPT ![t] =
                        [IdleThread EXCEPT !.pc = pcAfter, !.wb = w,
                                           !.released = released \cap DOMAIN w,
                                           !.sent = Len(res.tasks) - Len(tasks)]]
    /\ created' = [r \in Regions |->
                     IF r \in DOMAIN w \ DOMAIN regions THEN created[r] + 1
                     ELSE created[r]]
    /\ lastWriter' = [r \in Regions |-> IF r \in DOMAIN w THEN t ELSE lastWriter[r]]
    /\ released' = released \ DOMAIN w
    /\ nwrites' = IF counted THEN nwrites + 1 ELSE nwrites
    /\ UNCHANGED <<aux, worker, disk, writer, phase, iter, acked>>

RfEngine_apply(t, w) == ApplyWhole(t, w, "applied", FALSE)

(***************************************************************************)
(* Dependents (engine.rs 437-466).                                         *)
(***************************************************************************)
RfEngine_add_dependent(region_id, dependent_id) ==
    /\ Running
    /\ region_id \in DOMAIN regions
    /\ regions' = [regions EXCEPT ![region_id].dependents = @ \cup {dependent_id}]
    /\ released' = released \ {region_id}
    /\ UNCHANGED <<aux, tasks, worker, th, disk, writer, phase, iter, created,
                   lastWriter, acked, nwrites>>

RfEngine_remove_dependent(region_id, dependent_id) ==
    /\ Running
    /\ region_id \in DOMAIN regions
    /\ regions' = [regions EXCEPT ![region_id].dependents = @ \ {dependent_id}]
    /\ released' = IF regions[region_id].dependents = {dependent_id}
                   THEN released \cup {region_id} ELSE released
    /\ UNCHANGED <<aux, tasks, worker, th, disk, writer, phase, iter, created,
                   lastWriter, acked, nwrites>>

(***************************************************************************)
(* The worker: one task of the channel at a time, in channel order.        *)
(* Truncate: the blocks are dropped.  Rotate: the epoch joins the sealed   *)
(* epochs the worker owns.  Close: the worker exits.                       *)
(***************************************************************************)
Worker_run ==
    /\ phase.state # "crashed"
    /\ worker.alive
    /\ tasks # <<>>
    /\ tasks' = Tail(tasks)
    /\ worker' = CASE Head(tasks).type = "Truncate" -> worker
                   [] Head(tasks).type = "Rotate" ->
                        [worker EXCEPT !.epoches = Append(@, Head(tasks).epoch_id)]
                   [] OTHER -> [worker EXCEPT !.alive = FALSE]
    /\ UNCHANGED <<aux, regions, th, disk, writer, phase, iter, created, lastWriter,
                   released, acked, nwrites>>

(***************************************************************************)
(* The WAL.  A file is a sequence of frames; a frame holds one encoded     *)
(* RegionBatch behind a length prefix and a checksum, or is torn.          *)
(***************************************************************************)
RECURSIVE SumSeq(_)
SumSeq(q) == IF q = <<>> THEN 0 ELSE Head(q) + SumSeq(Tail(q))

\* index, term, entry type, data and context, each length-prefixed.
RaftLogOp_encoded_len(op) == 8 + 8 + 4 + 4 + Len(op.data) + 4

\* Lines 143-145: the encoded size of the states of a batch.
RECURSIVE StatesLen(_)
StatesLen(states) ==
    IF DOMAIN states = {} THEN 0
    ELSE LET k == CHOOSE x \in DOMAIN states : TRUE
         IN 2 + Len(k) + 4 + Len(states[k]) + StatesLen(MapRemove(states, k))

\* Lines 137-148.
RegionBatch_encoded_len(b) ==
    8 + 8 + 8 + 8 + 4
      + StatesLen(b.states)
      + Len(b.raft_logs) * 4
      + SumSeq([i \in 1..Len(b.raft_logs) |->
                    RaftLogOp_encoded_len(b.raft_logs[i])])

Frame(rec) == [ok |-> TRUE, rec |-> rec]

TornFrame == [ok |-> FALSE]

FrameSize(fr) == IF fr.ok THEN 4 + 4 + RegionBatch_encoded_len(fr.rec) ELSE 1

FileSize(file) == SumSeq([i \in 1..Len(file) |-> FrameSize(file[i])])

Frames(recs) == [i \in 1..Len(recs) |-> Frame(recs[i])]

\* The epoch files after the writer wrote frames at its position.
WALWriter_write(d, w, frames) ==
    [d EXCEPT ![w.epoch_id] = SubSeq(@, 1, w.pos) \o frames]

\* flush: the buffer goes to the epoch file at the writer's position; at
\* wal_size or more the file is closed and the next epoch opened.
WALWriter_flush(d, w) ==
    LET d1 == WALWriter_write(d, w, Frames(w.buf))
        rotated == FileSize(d1[w.epoch_id]) >= WalSize
    IN [disk |-> IF rotated THEN Append(d1, <<>>) ELSE d1,
        writer |-> IF rotated
                   THEN [w EXCEPT !.buf = <<>>, !.pos = 0, !.epoch_id = @ + 1]
                   ELSE [w EXCEPT !.buf = <<>>, !.pos = Len(d1[w.epoch_id])],
        rotated |-> rotated]

\* A faulty variant of PersistRecords: only one region of the batch is appended.
PersistRecords_OneRegion(w, order) == <<w[order[1]]>>

\* Lines 264-266: the records persist appends, in the order of the HashMap.
PersistRecords(w, order) == [i \in 1..Len(order) |-> w[order[i]]]

\* write(wb), lines 255-258: apply, then persist.
RfEngine_write(t, w) == ApplyWhole(t, w, "persist", TRUE)

\* A faulty variant of PersistEpoch: the epoch that a rotation opens.
PersistEpoch_Next(w) == w.epoch_id + 1

\* Line 263: the epoch id is read under the mutex, before the flush.
PersistEpoch(w) == w.epoch_id

\* Lines 262-266: take the WAL mutex, read epoch_id, append the records.
RfEngine_persist_lock(t) ==
    /\ Running
    /\ th[t].pc = "persist"
    /\ writer.owner = 0
    /\ \E order \in Orders(DOMAIN th[t].wb) :
         writer' = [writer EXCEPT !.owner = t,
                        !.buf = @ \o PersistRecords(th[t].wb, order)]
    /\ th' = [th EXCEPT ![t].pc = "flush", ![t].epoch_id = PersistEpoch(writer)]
    /\ UNCHANGED <<aux, regions, tasks, worker, disk, phase, iter, created,
                   lastWriter, released, acked, nwrites>>

\* History: a batch whose persist returned Ok, with the epoch and the offset
\* its records were written at.
AckedBatch(t) ==
    [wb |-> th[t].wb, epoch |-> th[t].epoch_id,
     pos |-> IF writer.owner = t THEN writer.pos ELSE th[t].pos]

\* A faulty variant of PersistNext: Rotate is never sent.
PersistNext_NoRotate(rotated) == "idle"

\* Lines 270-274: after a rotation persist sends Rotate, else it returns.
PersistNext(rotated) == IF rotated THEN "send" ELSE "idle"

\* A faulty variant of PersistUnlock: after a rotation the guard lives on
\* to the end of persist.
PersistUnlock_AtReturn(w, rotated) == IF rotated THEN w ELSE [w EXCEPT !.owner = 0]

\* Line 269: drop(writer) releases the WAL mutex, rotated or not.
PersistUnlock(w, rotated) == [w EXCEPT !.owner = 0]

\* Lines 268-270, 273-274: flush, drop the mutex; without a rotation persist
\* returns Ok here.
RfEngine_persist_flush(t) ==
    /\ Running
    /\ th[t].pc = "flush"
    /\ LET f == WALWriter_flush(disk, writer)
       IN /\ disk' = f.disk
          /\ writer' = PersistUnlock(f.writer, f.rotated)
          /\ th' = [th EXCEPT ![t].pc = PersistNext(f.rotated),
                               ![t].pos = writer.pos]
          /\ acked' = IF f.rotated THEN acked ELSE Append(acked, AckedBatch(t))
    /\ UNCHANGED <<aux, regions, tasks, worker, phase, iter, created, lastWriter,
                   released, nwrites>>

RotateTask(epoch_id) == [type |-> "Rotate", epoch_id |-> epoch_id]

\* Lines 270-274: after a rotation, send Rotate with the epoch read under the
\* mutex; the send blocks while the channel is full.
RfEngine_persist_send(t) ==
    /\ Running
    /\ th[t].pc = "send"
    /\ Len(tasks) < cap
    /\ worker.alive
    /\ tasks' = Append(tasks, RotateTask(th[t].epoch_id))
    /\ th' = [th EXCEPT ![t].pc = "idle"]
    /\ acked' = Append(acked, AckedBatch(t))
    /\ UNCHANGED <<aux, regions, worker, disk, writer, phase, iter, created,
                   lastWriter, released, nwrites>>

(***************************************************************************)
(* Crash and open (engine.rs 214-253).                                     *)
(***************************************************************************)
\* What a crash leaves of a flush in progress: some of the buffered frames,
\* and possibly a torn one after them.
CrashedDisk ==
    IF writer.owner = 0 \/ writer.buf = <<>> THEN {disk}
    ELSE {WALWriter_write(disk, writer, Frames(SubSeq(writer.buf, 1, n))) :
                n \in 0..Len(writer.buf)}
         \cup {WALWriter_write(disk, writer,
                    Append(Frames(SubSeq(writer.buf, 1, n)), TornFrame)) :
                n \in 0..(Len(writer.buf) - 1)}

\* The process dies: memory is lost, the epoch files stay.
Crash ==
    /\ phase.state = "open"
    /\ disk' \in CrashedDisk
    /\ phase' = [phase EXCEPT !.state = "crashed"]
    /\ regions' = NoRegions
    /\ tasks' = <<>>
    /\ worker' = [alive |-> FALSE, epoches |-> <<>>]
    /\ th' = [t \in Threads |-> IdleThread]
    /\ writer' = WALWriter_new(0)
    /\ iter' = NoIter
    /\ created' = [r \in Regions |-> 0]
    /\ lastWriter' = [r \in Regions |-> 0]
    /\ released' = {}
    /\ UNCHANGED <<aux, acked, nwrites>>

\* load_epoch: the records of an epoch file are applied in file order up to
\* the first frame that fails its checksum; the offset is where replay ended.
RECURSIVE LoadEpoch(_, _, _)
LoadEpoch(m, file, n) ==
    IF n >= Len(file) \/ ~file[n + 1].ok THEN [regions |-> m, offset |-> n]
    ELSE LoadEpoch(ApplyRegion(m, <<>>, file[n + 1].rec.region_id,
                               file[n + 1].rec).regions, file, n + 1)

\* A faulty variant of RfEngine_open_load: only the last epoch is loaded.
RECURSIVE RfEngine_open_load_LastOnly(_, _, _, _)
RfEngine_open_load_LastOnly(d, m, offset, ep) ==
    LoadEpoch(m, d[Len(d)], 0)

\* Lines 231-241: every epoch is loaded in order; the offset is the last one's.
RECURSIVE RfEngine_open_load(_, _, _, _)
RfEngine_open_load(d, m, offset, ep) ==
    IF ep > Len(d) THEN [regions |-> m, offset |-> offset]
    ELSE LET l == LoadEpoch(m, d[ep], 0)
         IN RfEngine_open_load(d, l.regions, l.offset, ep + 1)

\* open(dir, wal_size) on the directory of a crashed or stopped engine.
RfEngine_open ==
    /\ phase.state \in {"crashed", "stopped"}
    /\ LET loaded == RfEngine_open_load(disk, NoRegions, 0, 1)
       IN /\ regions' = loaded.regions
          /\ writer' = [WALWriter_new(Len(disk)) EXCEPT !.pos = loaded.offset]
          /\ created' = [r \in Regions |->
                            IF r \in DOMAIN loaded.regions THEN 1 ELSE 0]
    /\ phase' = [state |-> "open",
                 from |-> IF phase.state = "crashed" THEN "crash" ELSE "reopen",
                 at |-> nwrites]
    /\ tasks' = <<>>
    /\ worker' = Worker_new([i \in 1..(Len(disk) - 1) |-> i])
    /\ th' = [t \in Threads |-> IdleThread]
    /\ iter' = NoIter
    /\ lastWriter' = [r \in Regions |-> 0]
    /\ released' = {}
    /\ UNCHANGED <<aux, disk, acked, nwrites>>

(***************************************************************************)
(* stop_worker (engine.rs 424-430).                                        *)
(***************************************************************************)
CloseTask == [type |-> "Close"]

\* Line 425: send Close.
RfEngine_stop_worker_send ==
    /\ Running
    /\ \A t \in Threads : th[t].pc \in {"idle", "applied"}
    /\ worker.alive
    /\ Len(tasks) < cap
    /\ tasks' = Append(tasks, CloseTask)
    /\ phase' = [phase EXCEPT !.state = "stopping"]
    /\ UNCHANGED <<aux, regions, worker, th, disk, writer, iter, created, lastWriter,
                   released, acked, nwrites>>

\* A faulty variant of JoinReturns: the handle is not joined.
JoinReturns_NoWait(w) == TRUE

\* Line 428: join returns once the worker thread has ended.
JoinReturns(w) == ~w.alive

\* Lines 426-429: join the worker thread.
RfEngine_stop_worker_join ==
    /\ phase.state = "stopping"
    /\ JoinReturns(worker)
    /\ phase' = [phase EXCEPT !.state = "stopped"]
    /\ UNCHANGED <<aux, regions, tasks, worker, th, disk, writer, iter, created,
                   lastWriter, released, acked, nwrites>>

(***************************************************************************)
(* Spec: one caller using apply on one region, the dependents, the worker. *)
(***************************************************************************)
Next ==
    \/ \E w \in RegionInputs : RfEngine_apply(1, w)
    \/ \E d \in DependentIds : RfEngine_add_dependent(1, d)
    \/ \E d \in DependentIds : RfEngine_remove_dependent(1, d)
    \/ Worker_run

Spec == Init /\ [][Next]_vars

(***************************************************************************)
(* Properties of apply, checked under Spec.  In a step of apply by thread  *)
(* 1 the batch is th'[1].wb, the region before is regions[r], the region   *)
(* after is regions'[r] and the tasks sent are the new tail of the channel.*)
(***************************************************************************)
IsApply == th'[1].pc = "applied" /\ RfEngine_apply(1, th'[1].wb)

Sent == SubSeq(tasks', Len(tasks) + 1, Len(tasks'))

\* The blocks apply got back for region r, as the Truncate task carries them.
BlocksFor(r) ==
    LET ts == SelectSeq(Sent, LAMBDA x : x.type = "Truncate" /\ x.region_id = r)
    IN IF ts = <<>> THEN <<>> ELSE ts[1].truncated

EntrySet(l) == Range(RaftLogs_entries(l))

\* Entry e of the log l is cut by the appends of batch b: the first staged op
\* is at or before it, or leaves a gap after the last index.
CutByAppends(e, b, l) ==
    /\ b.raft_logs # <<>>
    /\ \/ b.raft_logs[1].index <= e.index
       \/ b.raft_logs[1].index > RaftLogs_last_index(l) + 1

\* C5: while a region has dependents, an apply whose batch advances
\* truncated_idx records it and truncates no prefix: every entry of the log
\* that the batch's own appends do not cut is still readable, and the blocks
\* returned hold only entries cut by the appends.
C5_DependentsGate ==
    [][\A r \in DOMAIN regions :
         (/\ IsApply
          /\ r \in DOMAIN th'[1].wb
          /\ regions[r].dependents # {}
          /\ th'[1].wb[r].truncated_idx > regions[r].truncated_idx)
         => LET b == th'[1].wb[r]
                pre == regions[r]
                post == regions'[r]
            IN /\ post.truncated_idx = b.truncated_idx
               /\ \A e \in EntrySet(pre.raft_logs) :
                    ~CutByAppends(e, b, pre.raft_logs)
                        => RegionData_get(post, e.index) = Some(e)
               /\ \A e \in EntrySet(BlocksFor(r)) :
                    /\ e \in EntrySet(pre.raft_logs)
                    /\ CutByAppends(e, b, pre.raft_logs)]_vars

\* A region with a dependent whose truncated_idx an apply moved onto entries
\* that are still in the log.
C5_Witness ==
    /\ th[1].pc = "applied"
    /\ 1 \in DOMAIN th[1].wb
    /\ 1 \in DOMAIN regions
    /\ regions[1].dependents # {}
    /\ th[1].wb[1].truncated_idx = regions[1].truncated_idx
    /\ th[1].wb[1].raft_logs = <<>>
    /\ th[1].sent = 0
    /\ Len(RaftLogs_entries(regions[1].raft_logs)) >= 2
    /\ regions[1].truncated_idx >= RaftLogs_last_index(regions[1].raft_logs)

\* C6: after the last dependent of a region went, the next apply on the region
\* for which need_truncate holds discards every entry of the log with index <=
\* truncated_idx and sends them to the worker in one Truncate task that names
\* the region and its truncated_idx.
C6_TruncationResumes ==
    [][\A r \in DOMAIN regions :
         (/\ IsApply
          /\ r \in DOMAIN th'[1].wb
          /\ r \in released
          /\ RaftLogs_first_index(regions[r].raft_logs) > 0
          /\ Max(regions[r].truncated_idx, th'[1].wb[r].truncated_idx)
                >= RaftLogs_first_index(regions[r].raft_logs))
         => LET b == th'[1].wb[r]
                pre == regions[r]
                post == regions'[r]
                gone == {e \in EntrySet(pre.raft_logs) :
                            e.index <= post.truncated_idx}
            IN /\ gone # {}
               /\ gone \subseteq EntrySet(BlocksFor(r))
               /\ \A e \in EntrySet(post.raft_logs) :
                    e.index <= post.truncated_idx => e \in Range(b.raft_logs)
               /\ \E i \in 1..Len(tasks') :
                    /\ i > Len(tasks)
                    /\ tasks'[i] = TruncateTask(r, post.truncated_idx, BlocksFor(r))]_vars

\* An apply right after the last dependent went, which sent a Truncate task
\* and left nothing at or below truncated_idx.
C6_Witness ==
    /\ th[1].pc = "applied"
    /\ 1 \in th[1].released
    /\ th[1].sent = 1
    /\ th[1].wb[1].raft_logs = <<>>
    /\ regions[1].truncated_idx >= 2
    /\ regions[1].raft_logs # <<>>
    /\ RaftLogs_first_index(regions[1].raft_logs) = regions[1].truncated_idx + 1

Contiguous(l) ==
    LET es == RaftLogs_entries(l)
    IN /\ \A i \in 1..Len(l) : l[i] # <<>>
       /\ \A i \in 1..(Len(es) - 1) : es[i + 1].index = es[i].index + 1

\* C8 as claimed: after every apply the log holds exactly one entry for each
\* index in [first_index, last_index] and last_index - first_index + 1 is the
\* number of entries over all blocks.
C8_Original ==
    \A r \in DOMAIN regions :
        LET l == regions[r].raft_logs
        IN /\ Contiguous(l)
           /\ \A i \in RaftLogs_first_index(l)..RaftLogs_last_index(l) :
                Cardinality({e \in EntrySet(l) : e.index = i}) = 1
           /\ RaftLogs_last_index(l) - RaftLogs_first_index(l) + 1
                = Len(RaftLogs_entries(l))

\* C8 as amended: after every apply the log is empty, with first_index =
\* last_index = 0, or it is index-contiguous as claimed.
C8_Contiguous ==
    \A r \in DOMAIN regions :
        LET l == regions[r].raft_logs
        IN /\ Contiguous(l)
           /\ l = <<>> => RaftLogs_first_index(l) = 0 /\ RaftLogs_last_index(l) = 0
           /\ l # <<>> =>
                /\ RaftLogs_first_index(l) >= 1
                /\ \A i \in RaftLogs_first_index(l)..RaftLogs_last_index(l) :
                     Cardinality({e \in EntrySet(l) : e.index = i}) = 1
                /\ RaftLogs_last_index(l) - RaftLogs_first_index(l) + 1
                     = Len(RaftLogs_entries(l))

\* A log of two blocks left by a batch whose first op fell at or before the
\* last index and cut the tail.
C8_Witness ==
    /\ th[1].pc = "applied"
    /\ th[1].sent = 1
    /\ regions[1].truncated_idx = 0
    /\ Len(regions[1].raft_logs) = 2
    /\ Len(th[1].wb[1].raft_logs) = 2

(***************************************************************************)
(* SpecWal: one caller using write on two regions, crashes, stop_worker    *)
(* and open.                                                               *)
(***************************************************************************)
\* The inputs of SpecWal: batches of region 1, batches of one call on region
\* 2, and batches of one call on region 1 and a set_state on region 2.
WalInputs ==
    (WbBuild(MaxWbOps, {1}, EntriesOf({1}))
       \cup WbBuild(1, {2}, EntriesOf({1}))
       \cup {WriteBatch_set_state(w, 2, k, v) :
                w \in WbBuild(1, {1}, EntriesOf({1})),
                k \in StateKeys, v \in StateVals})
      \ {WriteBatch_new}

NextWal ==
    \/ \E w \in WalInputs : RfEngine_write(1, w)
    \/ RfEngine_persist_lock(1)
    \/ RfEngine_persist_flush(1)
    \/ RfEngine_persist_send(1)
    \/ Worker_run
    \/ Crash
    \/ RfEngine_open
    \/ RfEngine_stop_worker_send
    \/ RfEngine_stop_worker_join

SpecWal == Init /\ [][NextWal]_vars

(***************************************************************************)
(* Reads (engine.rs 305-340).                                              *)
(***************************************************************************)
RfEngine_get_term(m, region_id, index) ==
    IF region_id \notin DOMAIN m THEN None
    ELSE RegionData_term(m[region_id], index)

RfEngine_get_last_index(m, region_id) ==
    IF region_id \notin DOMAIN m THEN None
    ELSE LET last == RaftLogs_last_index(m[region_id].raft_logs)
         IN IF last = 0 THEN None ELSE Some(last)

RfEngine_get_state(m, region_id, key) ==
    IF region_id \notin DOMAIN m THEN None
    ELSE LET val == RegionData_get_state(m[region_id], key)
         IN IF val # None /\ val[1] # <<>> THEN val ELSE None

(***************************************************************************)
(* Durability and the reopen round trip, under SpecWal.                    *)
(***************************************************************************)
\* The number of frames of a file that replay accepts.
ValidLen(file) ==
    CHOOSE n \in 0..Len(file) :
        /\ \A i \in 1..n : file[i].ok
        /\ n = Len(file) \/ ~file[n + 1].ok

\* The records for region r that replay applies after frame p of epoch e.
Later(e, p, r) ==
    {disk[e2][i].rec : <<e2, i>> \in
        {x \in (e..Len(disk)) \X (1..(MaxWrites * Cardinality(Regions))) :
            /\ x[2] <= ValidLen(disk[x[1]])
            /\ x[1] > e \/ x[2] > p
            /\ disk[x[1]][x[2]].rec.region_id = r}}

\* The frames of the acked batch a that hold its record for region r.
FramesOf(a, r) ==
    {p \in (a.pos + 1)..(a.pos + Cardinality(DOMAIN a.wb)) :
        /\ a.epoch <= Len(disk)
        /\ p <= ValidLen(disk[a.epoch])
        /\ disk[a.epoch][p].rec = a.wb[r]}

\* The ops of b after position j have consecutive indices.
DenseAfter(b, j) ==
    \A i \in (j + 1)..Len(b.raft_logs) :
        b.raft_logs[i].index = b.raft_logs[i - 1].index + 1

\* The effects of the record at frame p of epoch e, batch b of region r, are
\* in the region map m.
Includes(m, e, p, r, b) ==
    LET later == Later(e, p, r)
    IN /\ r \in DOMAIN m
       /\ m[r].truncated_idx >= b.truncated_idx
       /\ \A k \in DOMAIN b.states :
            (\A l \in later : k \notin DOMAIN l.states)
               => RfEngine_get_state(m, r, k)
                    = IF b.states[k] = <<>> THEN None ELSE Some(b.states[k])
       /\ \A j \in 1..Len(b.raft_logs) :
            LET op == b.raft_logs[j]
            IN (/\ DenseAfter(b, j)
                /\ \A l \in later :
                     l.raft_logs = <<>> /\ m[r].truncated_idx < op.index)
               => /\ RfEngine_get_term(m, r, op.index) = Some(op.term)
                  /\ RegionData_get(m[r], op.index) = Some(op)

Recovered ==
    /\ phase = [state |-> "open", from |-> "crash", at |-> nwrites]
    /\ \A t \in Threads : th[t].pc = "idle"

SameData(a, b) ==
    /\ DOMAIN a = DOMAIN b
    /\ \A r \in DOMAIN a :
         /\ a[r].states = b[r].states
         /\ a[r].truncated_idx = b[r].truncated_idx
         /\ RaftLogs_first_index(a[r].raft_logs) = RaftLogs_first_index(b[r].raft_logs)
         /\ RaftLogs_last_index(a[r].raft_logs) = RaftLogs_last_index(b[r].raft_logs)
         /\ \A i \in 1..(MaxIdx + 1) : RegionData_get(a[r], i) = RegionData_get(b[r], i)

\* C3: opening the directory of an engine whose worker was stopped rebuilds a
\* region map equal to the one before the close: same regions, state maps,
\* truncated_idx, first and last index, and entry bodies; also on a repeated
\* reopen.
C3_ReopenRoundTrip ==
    [][(phase.state = "stopped" /\ phase'.state = "open")
          => SameData(regions, regions')]_vars

\* A reopen after all writes, with records in two epochs, two regions, a log
\* and a state.
C3_Witness ==
    /\ phase = [state |-> "open", from |-> "reopen", at |-> MaxWrites]
    /\ Len(disk) >= 2 /\ disk[1] # <<>> /\ disk[2] # <<>>
    /\ DOMAIN regions = Regions
    /\ \E r \in Regions : regions[r].raft_logs # <<>>
    /\ \E r \in Regions : regions[r].states # EmptyMap

(***************************************************************************)
(* apply and persist by concurrent callers.  apply is taken region by      *)
(* region, and get_or_init_region_data (361-374) step by step: the lookup  *)
(* of line 362 drops its guard before the insert of line 372.  A thread    *)
(* that holds the Ref of a region holds it together with the write lock,   *)
(* so getting the Ref and applying is one step.                            *)
(***************************************************************************)
\* apply(wb) is called: the loop of line 282 starts.
RfEngine_apply_call(t, w) ==
    /\ Running
    /\ th[t].pc = "idle"
    /\ nwrites < MaxWrites
    /\ th' = [th EXCEPT ![t] = [IdleThread EXCEPT !.pc = "apply", !.wb = w,
                                                  !.todo = DOMAIN w]]
    /\ nwrites' = nwrites + 1
    /\ UNCHANGED <<aux, regions, tasks, worker, disk, writer, phase, iter, created,
                   lastWriter, released, acked>>

\* Lines 284-296 on the RegionData that is in the map for region_id.
ApplyOne(t, region_id) ==
    LET res == RegionData_apply(regions[region_id], th[t].wb[region_id])
        sends == RfEngine_apply_tasks(region_id, res)
        todo == th[t].todo \ {region_id}
    IN /\ Len(tasks) + Len(sends) <= cap
       /\ sends # <<>> => worker.alive
       /\ regions' = [regions EXCEPT ![region_id] = res.data]
       /\ tasks' = tasks \o sends
       /\ th' = [th EXCEPT ![t].todo = todo, ![t].cur = 0,
                           ![t].pc = IF todo = {} THEN "applied" ELSE "apply"]
       /\ lastWriter' = [lastWriter EXCEPT ![region_id] = t]
       /\ released' = released \ {region_id}
       /\ UNCHANGED <<aux, worker, disk, writer, phase, iter, created, acked, nwrites>>

\* Line 362 finds the region: lines 363-365, then 284-296.
RfEngine_apply_hit(t, region_id) ==
    /\ Running
    /\ th[t].pc = "apply"
    /\ region_id \in th[t].todo
    /\ region_id \in DOMAIN regions
    /\ ApplyOne(t, region_id)

\* Line 362 finds no region: line 368.
RfEngine_apply_miss(t, region_id) ==
    /\ Running
    /\ th[t].pc = "apply"
    /\ region_id \in th[t].todo
    /\ region_id \notin DOMAIN regions
    /\ th' = [th EXCEPT ![t].pc = "missed", ![t].cur = region_id]
    /\ UNCHANGED <<aux, regions, tasks, worker, disk, writer, phase, iter, created,
                   lastWriter, released, acked, nwrites>>

\* Lines 371-372: a fresh RegionData is inserted, whatever the map holds.
RfEngine_apply_insert(t) ==
    /\ Running
    /\ th[t].pc = "missed"
    /\ regions' = DashMap_insert(regions, th[t].cur, RegionData_new(th[t].cur))
    /\ created' = [created EXCEPT ![th[t].cur] = @ + 1]
    /\ th' = [th EXCEPT ![t].pc = "inserted"]
    /\ UNCHANGED <<aux, tasks, worker, disk, writer, phase, iter, lastWriter,
                   released, acked, nwrites>>

\* Line 373, then 284-296.
RfEngine_apply_inserted(t) ==
    /\ Running
    /\ th[t].pc = "inserted"
    /\ ApplyOne(t, th[t].cur)

\* The caller passes the batch it applied to persist.
RfEngine_persist_call(t) ==
    /\ Running
    /\ th[t].pc = "applied"
    /\ th' = [th EXCEPT ![t].pc = "persist"]
    /\ UNCHANGED <<aux, regions, tasks, worker, disk, writer, phase, iter, created,
                   lastWriter, released, acked, nwrites>>

\* The inputs of SpecConc: batches of one builder call, and batches of one
\* call on region 1 and a state set on region 2.
ConcInputs ==
    (WbBuild(1, Regions, EntriesOf({1}))
       \cup {WriteBatch_set_state(w, 2, k, <<7>>) :
                w \in WbBuild(1, {1}, EntriesOf({1})) \ {WriteBatch_new},
                k \in StateKeys})
      \ {WriteBatch_new}

NextConc ==
    \/ \E t \in Threads :
         \/ \E w \in ConcInputs : RfEngine_apply_call(t, w)
         \/ \E r \in Regions : RfEngine_apply_hit(t, r)
         \/ \E r \in Regions : RfEngine_apply_miss(t, r)
         \/ RfEngine_apply_insert(t)
         \/ RfEngine_apply_inserted(t)
         \/ RfEngine_persist_call(t)
         \/ RfEngine_persist_lock(t)
         \/ RfEngine_persist_flush(t)
         \/ RfEngine_persist_send(t)
    \/ Worker_run

SpecConc == Init /\ [][NextConc]_vars

\* What wb wrote on region r can be read from the region map m.
ReadsOwnWrites(m, r, b) ==
    /\ \A k \in DOMAIN b.states :
         b.states[k] # <<>> => RfEngine_get_state(m, r, k) = Some(b.states[k])
    /\ \A j \in 1..Len(b.raft_logs) :
         DenseAfter(b, j) =>
            RfEngine_get_term(m, r, b.raft_logs[j].index) = Some(b.raft_logs[j].term)
    /\ b.raft_logs # <<>> =>
         RfEngine_get_last_index(m, r) = Some(b.raft_logs[Len(b.raft_logs)].index)

\* C1: once apply(wb) has returned and before wb is persisted, get_state,
\* get_term and get_last_index return what wb wrote on every region of wb
\* that no other batch was applied to since.
C1_ReadYourWrites ==
    \A t \in Threads :
        th[t].pc = "applied" =>
            \A r \in DOMAIN th[t].wb :
                lastWriter[r] = t => ReadsOwnWrites(regions, r, th[t].wb[r])

\* C1 where no RegionData was ever replaced in the map.
C1_NoReplacement ==
    \A t \in Threads :
        th[t].pc = "applied" =>
            \A r \in DOMAIN th[t].wb :
                (lastWriter[r] = t /\ created[r] <= 1)
                   => ReadsOwnWrites(regions, r, th[t].wb[r])

Quiescent ==
    /\ \A t \in Threads : th[t].pc = "idle"
    /\ Len(acked) = nwrites

\* C4: when every applied batch has been persisted, replaying the WAL in file
\* order rebuilds the region data the applies produced in memory, in whatever
\* order the threads took the WAL mutex (no RegionData having been replaced).
C4_ReplayAgrees ==
    (Quiescent /\ \A r \in Regions : created[r] <= 1)
       => SameData(regions, RfEngine_open_load(disk, NoRegions, 0, 1).regions)

\* C9: a RegionData inserted in the region map for a region id is never
\* replaced by a fresh one: each region id is inserted at most once.
C9_NeverReplaced == \A r \in Regions : created[r] <= 1

(***************************************************************************)
(* iterate_all_states (engine.rs 399-422), one call of f at a time.        *)
(***************************************************************************)
IterKeys == {<<1>>, <<2>>}

\* The order of Bytes: byte by byte, a proper prefix first.
BytesLess(a, b) ==
    \E i \in 1..(Len(b)) :
        /\ \A j \in 1..(i - 1) : j <= Len(a) /\ a[j] = b[j]
        /\ i > Len(a) \/ (i <= Len(a) /\ a[i] < b[i])

\* The keys of a BTreeMap in its order, or in reverse.
SortedKeys(states, desc) ==
    CHOOSE o \in Orders(DOMAIN states) :
        \A i, j \in DOMAIN o :
            i < j => IF desc THEN BytesLess(o[j], o[i]) ELSE BytesLess(o[i], o[j])

\* Line 403: the loop over the regions starts.
RfEngine_iterate_all_states_begin(desc) ==
    /\ Running
    /\ \A t \in Threads : th[t].pc \in {"idle", "applied"}
    /\ iter' = [pc |-> "regions", desc |-> desc, todo |-> DOMAIN regions,
                cur |-> 0, keys |-> <<>>, stopped |-> FALSE, late |-> FALSE]
    /\ UNCHANGED <<aux, regions, tasks, worker, th, disk, writer, phase, created,
                   lastWriter, released, acked, nwrites>>

\* Lines 403-407: the next region of the map, in the map's order.
RfEngine_iterate_all_states_region ==
    /\ iter.pc = "regions"
    /\ \E r \in iter.todo :
         LET keys == SortedKeys(regions[r].states, iter.desc)
         IN iter' = [iter EXCEPT !.todo = @ \ {r}, !.cur = r, !.keys = keys,
                                 !.pc = IF keys = <<>> THEN "regions" ELSE "keys"]
    /\ UNCHANGED <<aux, regions, tasks, worker, th, disk, writer, phase, created,
                   lastWriter, released, acked, nwrites>>

\* Lines 408-420: f is called on the next state of the region and returns
\* ret; on false the loop over the states of this region is left.
RfEngine_iterate_all_states_call(ret) ==
    /\ iter.pc = "keys"
    /\ iter' = [iter EXCEPT !.late = @ \/ iter.stopped,
                            !.stopped = @ \/ ~ret,
                            !.keys = IF ret THEN Tail(@) ELSE <<>>,
                            !.pc = IF ret /\ Len(iter.keys) > 1
                                   THEN "keys" ELSE "regions"]
    /\ UNCHANGED <<aux, regions, tasks, worker, th, disk, writer, phase, created,
                   lastWriter, released, acked, nwrites>>

\* Line 422: no region is left.
RfEngine_iterate_all_states_return ==
    /\ iter.pc = "regions"
    /\ iter.todo = {}
    /\ iter' = NoIter
    /\ UNCHANGED <<aux, regions, tasks, worker, th, disk, writer, phase, created,
                   lastWriter, released, acked, nwrites>>

\* The inputs of SpecIter: batches of one or two states.
IterInputs ==
    LET one == {WriteBatch_set_state(WriteBatch_new, r, k, <<7>>) :
                    r \in Regions, k \in IterKeys}
    IN one \cup {WriteBatch_set_state(w, r, k, <<7>>) :
                    w \in one, r \in Regions, k \in IterKeys}

NextIter ==
    \/ \E w \in IterInputs : RfEngine_apply(1, w)
    \/ \E desc \in BOOLEAN : RfEngine_iterate_all_states_begin(desc)
    \/ RfEngine_iterate_all_states_region
    \/ \E ret \in BOOLEAN : RfEngine_iterate_all_states_call(ret)
    \/ RfEngine_iterate_all_states_return

SpecIter == Init /\ [][NextIter]_vars

\* C10: once f has returned false, iterate_all_states does not call f again
\* during that call.
C10_StopsOnFalse == iter.pc # "off" => ~iter.late

\* C10 within one region: after f returned false no further state of the
\* region it was called on is passed to f.
C10_StopsRegion ==
    (iter.pc = "keys" /\ iter.stopped) =>
        \E r \in Regions : r \notin iter.todo /\ r # iter.cur

(***************************************************************************)
(* Reads of the state map (engine.rs 342-397).                             *)
(***************************************************************************)
Returned(x) == [kind |-> "ok", val |-> x]

Panicked == [kind |-> "panic", val |-> None]

\* The keys a BTreeMap hands out for range(lo..hi), or a panic when lo > hi.
BTreeMap_range(states, lo, hi) ==
    IF BytesLess(hi, lo) THEN Panicked
    ELSE Returned({k \in DOMAIN states :
                      (k = lo \/ BytesLess(lo, k)) /\ BytesLess(k, hi)})

\* Lines 347-348: the prefix with its last byte incremented; build "debug"
\* checks the arithmetic, build "release" wraps.
EndPrefix(prefix, build) ==
    IF prefix = <<>> THEN Panicked
    ELSE IF prefix[Len(prefix)] = ByteMax /\ build = "debug" THEN Panicked
    ELSE Returned([prefix EXCEPT ![Len(prefix)] = (@ + 1) % (ByteMax + 1)])

\* get_last_state_with_prefix(region_id, prefix) on region map m.
RfEngine_get_last_state_with_prefix(m, region_id, prefix, build) ==
    IF region_id \notin DOMAIN m THEN Returned(None)
    ELSE LET end_prefix == EndPrefix(prefix, build)
         IN IF end_prefix.kind = "panic" THEN Panicked
            ELSE LET states == m[region_id].states
                     range == BTreeMap_range(states, prefix, end_prefix.val)
                 IN IF range.kind = "panic" THEN Panicked
                    ELSE LET ks == range.val \ {end_prefix.val}
                         IN IF ks = {} THEN Returned(None)
                            ELSE Returned(Some(states[
                                   CHOOSE k \in ks :
                                     \A x \in ks : x = k \/ BytesLess(x, k)]))

\* iterate_region_states(region_id, desc, f) with f returning Ok: the keys
\* passed to f, in order.
RfEngine_iterate_region_states(m, region_id, desc) ==
    IF region_id \notin DOMAIN m THEN <<>>
    ELSE SortedKeys(m[region_id].states, desc)

ReadKeys == {<<1>>, <<1, 0>>, <<1, ByteMax>>, <<2>>, <<ByteMax>>, <<ByteMax, 0>>}

Prefixes ==
    {<<>>} \cup {<<a>> : a \in 0..ByteMax}
           \cup {<<a, b>> : a \in {1, ByteMax}, b \in {0, ByteMax}}

\* A caller reads the last state with a prefix.
RfEngine_get_last_state_with_prefix_call(region_id, prefix, build) ==
    /\ Running
    /\ lastRead = NoCall
    /\ lastRead' = [region_id |-> region_id, prefix |-> prefix,
                    result |-> RfEngine_get_last_state_with_prefix(
                                   regions, region_id, prefix, build)]
    /\ UNCHANGED <<regions, tasks, worker, th, disk, writer, phase, iter,
                   created, lastWriter, released, acked, nwrites, cap, rb, poisoned, kvstats>>

\* The inputs of SpecRead: batches of one state of region 1, set to a value
\* naming its key, or to the empty value.
ReadInputs ==
    LET kvs == UNION {{<<k, <<>>>>, <<k, <<7>> \o k>>} : k \in ReadKeys}
    IN {WriteBatch_set_state(WriteBatch_new, 1, kv[1], kv[2]) : kv \in kvs}

\* The caller has taken the result of its read.
ReadDone ==
    /\ lastRead # NoCall
    /\ lastRead' = NoCall
    /\ UNCHANGED <<regions, tasks, worker, th, disk, writer, phase, iter,
                   created, lastWriter, released, acked, nwrites, cap, rb, poisoned, kvstats>>

\* The caller applies a batch between two reads.
ApplyBetweenReads(w) == lastRead = NoCall /\ RfEngine_apply(1, w)

\* One caller, writing and reading in turn.
NextRead ==
    \/ \E w \in ReadInputs : ApplyBetweenReads(w)
    \/ \E p \in Prefixes, build \in {"debug", "release"} :
         RfEngine_get_last_state_with_prefix_call(1, p, build)
    \/ ReadDone

SpecRead == Init /\ [][NextRead]_vars

StartsWith(k, p) == Len(p) <= Len(k) /\ SubSeq(k, 1, Len(p)) = p

\* The value of the greatest key of the region starting with p, or None.
LastWithPrefix(m, region_id, p) ==
    IF region_id \notin DOMAIN m THEN None
    ELSE LET ks == {k \in DOMAIN m[region_id].states : StartsWith(k, p)}
         IN IF ks = {} THEN None
            ELSE Some(m[region_id].states[
                    CHOOSE k \in ks : \A x \in ks : x = k \/ BytesLess(x, k)])

\* C11: get_last_state_with_prefix(region, p) returns the value of the
\* greatest key of the region that starts with p, or None if there is none,
\* for every prefix p.
C11_LastWithPrefix ==
    lastRead # NoCall =>
        lastRead.result
          = Returned(LastWithPrefix(regions, lastRead.region_id, lastRead.prefix))

\* C11 for the non-empty prefixes whose last byte is not the greatest byte.
C11_NoOverflow ==
    (/\ lastRead # NoCall
     /\ lastRead.prefix # <<>>
     /\ lastRead.prefix[Len(lastRead.prefix)] # ByteMax)
       => lastRead.result
            = Returned(LastWithPrefix(regions, lastRead.region_id, lastRead.prefix))

\* C12: after a batch that sets key k to the empty value has been applied,
\* get_state(region, k) is None, k is in neither the region's state map nor
\* its iteration, and every key the batch does not set keeps its value.
C12_EmptyValueDeletes ==
    [][IsApply =>
        \A r \in DOMAIN th'[1].wb :
            LET b == th'[1].wb[r]
                old == IF r \in DOMAIN regions THEN regions[r].states ELSE EmptyMap
            IN \A k \in DOMAIN b.states :
                 b.states[k] = <<>> =>
                    /\ RfEngine_get_state(regions', r, k) = None
                    /\ k \notin DOMAIN regions'[r].states
                    /\ \A desc \in BOOLEAN :
                         k \notin Range(RfEngine_iterate_region_states(regions', r, desc))
                    /\ \A k2 \in DOMAIN old \ DOMAIN b.states :
                         /\ k2 \in DOMAIN regions'[r].states
                         /\ regions'[r].states[k2] = old[k2]]_vars

\* A batch deleting a key has been applied to a region that holds two other
\* keys.
C12_Witness ==
    /\ th[1].pc = "applied"
    /\ 1 \in DOMAIN th[1].wb
    /\ \E k \in DOMAIN th[1].wb[1].states : th[1].wb[1].states[k] = <<>>
    /\ 1 \in DOMAIN regions
    /\ Cardinality(DOMAIN regions[1].states) >= 2

(***************************************************************************)
(* The codec of RegionBatch (engine.rs 150-211), little-endian, on bytes   *)
(* 0..ByteMax.                                                             *)
(***************************************************************************)
Base == ByteMax + 1

RECURSIVE Pow(_, _)
Pow(b, n) == IF n = 0 THEN 1 ELSE b * Pow(b, n - 1)

\* put_uN_le: the n bytes of v, least significant first.
LE(n, v) == [i \in 1..n |-> (v \div Pow(Base, i - 1)) % Base]

\* LittleEndian::read_uN on the first n bytes of buf.
ReadLE(buf, n) == SumSeq([i \in 1..n |-> buf[i] * Pow(Base, i - 1)])

Drop(buf, n) == SubSeq(buf, n + 1, Len(buf))

Take(buf, n) == SubSeq(buf, 1, n)

\* index, term, entry type, data and context.
RaftLogOp_encode_to(op) ==
    LE(8, op.index) \o LE(8, op.term) \o LE(4, 0)
        \o LE(4, Len(op.data)) \o op.data \o LE(4, 0)

RaftLogOp_decode(buf) ==
    [index |-> ReadLE(buf, 8), term |-> ReadLE(Drop(buf, 8), 8),
     data |-> Take(Drop(buf, 24), ReadLE(Drop(buf, 20), 4))]

\* Lines 157-162: the states in key order.
RECURSIVE EncodeStates(_, _)
EncodeStates(states, keys) ==
    IF keys = <<>> THEN <<>>
    ELSE LET key == Head(keys)
         IN LE(2, Len(key)) \o key \o LE(4, Len(states[key])) \o states[key]
              \o EncodeStates(states, Tail(keys))

\* Lines 163-167: the end offsets of the ops, end_off starting at off.
RECURSIVE EncodeOffsets(_, _)
EncodeOffsets(ops, off) ==
    IF ops = <<>> THEN <<>>
    ELSE LET end_off == off + RaftLogOp_encoded_len(Head(ops))
         IN LE(4, end_off) \o EncodeOffsets(Tail(ops), end_off)

RECURSIVE EncodeOps(_)
EncodeOps(ops) ==
    IF ops = <<>> THEN <<>> ELSE RaftLogOp_encode_to(Head(ops)) \o EncodeOps(Tail(ops))

\* A faulty variant of EndIndex: the index of the back op itself.
EndIndex_Back(ops) == IF ops = <<>> THEN 0 ELSE ops[Len(ops)].index

\* Line 152.
FirstIndex(ops) == IF ops = <<>> THEN 0 ELSE Head(ops).index

\* Line 153.
EndIndex(ops) == IF ops = <<>> THEN 0 ELSE ops[Len(ops)].index + 1

RegionBatch_encode_to(b) ==
    LE(8, b.region_id) \o LE(8, FirstIndex(b.raft_logs))
        \o LE(8, EndIndex(b.raft_logs)) \o LE(8, b.truncated_idx)
        \o LE(4, Cardinality(DOMAIN b.states))
        \o EncodeStates(b.states, SortedKeys(b.states, FALSE))
        \o EncodeOffsets(b.raft_logs, 0)
        \o EncodeOps(b.raft_logs)

\* Lines 185-196: n states are read from buf and inserted.
RECURSIVE DecodeStates(_, _, _)
DecodeStates(buf, n, states) ==
    IF n = 0 THEN [states |-> states, buf |-> buf]
    ELSE LET key_len == ReadLE(buf, 2)
             key == Take(Drop(buf, 2), key_len)
             buf1 == Drop(buf, 2 + key_len)
             val_len == ReadLE(buf1, 4)
             val == Take(Drop(buf1, 4), val_len)
         IN DecodeStates(Drop(buf1, 4 + val_len), n - 1, MapPut(states, key, val))

\* Lines 201-208: n ops are cut out of buf at the offsets of log_index_buf.
RECURSIVE DecodeOps(_, _, _, _)
DecodeOps(log_index_buf, buf, start_index, n) ==
    IF n = 0 THEN <<>>
    ELSE LET end_index == ReadLE(log_index_buf, 4)
         IN <<RaftLogOp_decode(SubSeq(buf, start_index + 1, end_index))>>
              \o DecodeOps(Drop(log_index_buf, 4), buf, end_index, n - 1)

RegionBatch_decode(buf) ==
    LET region_id == ReadLE(buf, 8)
        first == ReadLE(Drop(buf, 8), 8)
        end == ReadLE(Drop(buf, 16), 8)
        truncated_idx == ReadLE(Drop(buf, 24), 8)
        states_len == ReadLE(Drop(buf, 32), 4)
        st == DecodeStates(Drop(buf, 36), states_len, EmptyMap)
        num_logs == end - first
        log_index_len == num_logs * 4
    IN [region_id |-> region_id, truncated_idx |-> truncated_idx,
        states |-> st.states,
        raft_logs |-> DecodeOps(Take(st.buf, log_index_len),
                                Drop(st.buf, log_index_len), 0, num_logs)]

(***************************************************************************)
(* SpecBatch: one RegionBatch under its own operations and its codec.      *)
(* rb.self is the batch, rb.op the last call and its argument, rb.buf the  *)
(* bytes of the last encode_to and rb.out the result of the last decode.   *)
(***************************************************************************)
\* A faulty variant of RegionBatch_merge: the ops of other are pushed back
\* as they are.
RegionBatch_merge_PushBack(b, other) ==
    [b EXCEPT !.states = [k \in DOMAIN b.states \cup DOMAIN other.states |->
                             IF k \in DOMAIN other.states THEN other.states[k]
                             ELSE b.states[k]],
              !.raft_logs = b.raft_logs \o other.raft_logs,
              !.truncated_idx = Max(b.truncated_idx, other.truncated_idx)]

\* Lines 129-131: the ops of other are appended in order.
RECURSIVE AppendAll(_, _)
AppendAll(b, ops) ==
    IF ops = <<>> THEN b
    ELSE AppendAll(RegionBatch_append_raft_log(b, Head(ops)), Tail(ops))

\* A faulty variant of RegionBatch_merge: the truncation point of other
\* replaces the one of self.
RegionBatch_merge_OtherTruncated(b, other) ==
    [b EXCEPT !.states = [k \in DOMAIN b.states \cup DOMAIN other.states |->
                             IF k \in DOMAIN other.states THEN other.states[k]
                             ELSE b.states[k]],
              !.raft_logs = AppendAll(b, other.raft_logs).raft_logs,
              !.truncated_idx = other.truncated_idx]

\* Lines 125-135.
RegionBatch_merge(b, other) ==
    LET inserted == [b EXCEPT !.states =
                        [k \in DOMAIN b.states \cup DOMAIN other.states |->
                            IF k \in DOMAIN other.states THEN other.states[k]
                            ELSE b.states[k]]]
        appended == AppendAll(inserted, other.raft_logs)
    IN [appended EXCEPT !.truncated_idx =
                            IF @ < other.truncated_idx THEN other.truncated_idx
                            ELSE @]

BatchKeys == {<<1>>, <<1, 0>>}

BatchStep(B) ==
    B \cup {RegionBatch_set_state(b, k, v) : b \in B, k \in BatchKeys, v \in StateVals}
      \cup {RegionBatch_append_raft_log(b, op) : b \in B, op \in Entries}
      \cup {RegionBatch_truncate(b, idx) : b \in B, idx \in 1..MaxIdx}

RECURSIVE BatchBuild(_)
BatchBuild(n) ==
    IF n = 0 THEN {RegionBatch_new(1)} ELSE BatchStep(BatchBuild(n - 1))

\* The batches that are merged into rb.self.
OtherBatches == BatchBuild(MaxWbOps)

Called(b, name, arg) == rb' = [self |-> b, op |-> <<name, arg>>, buf |-> <<>>, out |-> None]

BatchFrame ==
    UNCHANGED <<regions, tasks, worker, th, disk, writer, phase, iter, created,
                lastWriter, released, acked, nwrites, cap, lastRead, poisoned, kvstats>>

RegionBatch_set_state_call(key, val) ==
    /\ Called(RegionBatch_set_state(rb.self, key, val), "set_state", <<key, val>>)
    /\ BatchFrame

RegionBatch_append_raft_log_call(op) ==
    /\ Called(RegionBatch_append_raft_log(rb.self, op), "append_raft_log", op)
    /\ BatchFrame

RegionBatch_truncate_call(idx) ==
    /\ Called(RegionBatch_truncate(rb.self, idx), "truncate", idx)
    /\ BatchFrame

RegionBatch_merge_call(other) ==
    /\ Called(RegionBatch_merge(rb.self, other), "merge", other)
    /\ BatchFrame

RegionBatch_encode_to_call ==
    /\ rb.buf = <<>>
    /\ rb' = [rb EXCEPT !.buf = RegionBatch_encode_to(rb.self)]
    /\ BatchFrame

RegionBatch_decode_call ==
    /\ rb.buf # <<>>
    /\ rb.out = None
    /\ rb' = [rb EXCEPT !.out = Some(RegionBatch_decode(rb.buf))]
    /\ BatchFrame

NextBatch ==
    \/ \E key \in BatchKeys, val \in StateVals : RegionBatch_set_state_call(key, val)
    \/ \E op \in Entries : RegionBatch_append_raft_log_call(op)
    \/ \E idx \in 1..MaxIdx + 1 : RegionBatch_truncate_call(idx)
    \/ \E other \in OtherBatches : RegionBatch_merge_call(other)
    \/ RegionBatch_encode_to_call
    \/ RegionBatch_decode_call

SpecBatch == Init /\ [][NextBatch]_vars

\* C13: decoding the bytes of encode_to gives back the batch (region_id,
\* truncated_idx, states and ops); the header holds the index of the front
\* op as first and the index of the back op plus one as end, both 0 for a
\* batch without ops; encoded_len is the number of bytes written.
C13_CodecRoundTrip ==
    /\ rb.out # None => rb.out[1] = rb.self
    /\ rb.buf # <<>> =>
         /\ ReadLE(Drop(rb.buf, 8), 8) = FirstIndex(rb.self.raft_logs)
         /\ ReadLE(Drop(rb.buf, 16), 8) =
                (IF rb.self.raft_logs = <<>> THEN 0
                 ELSE rb.self.raft_logs[Len(rb.self.raft_logs)].index + 1)
         /\ Len(rb.buf) = RegionBatch_encoded_len(rb.self)

C13_Witness ==
    /\ rb.out # None
    /\ Len(rb.out[1].raft_logs) = 2
    /\ Cardinality(DOMAIN rb.out[1].states) = 2
    /\ rb.out[1].truncated_idx > 0

(***************************************************************************)
(* The operations of RegionBatch, seen as steps of SpecBatch.              *)
(***************************************************************************)
\* The step is a call of the operation name: a call empties rb.buf.
IsCall(name) == rb'.buf = <<>> /\ rb'.op[1] = name

HasIndex(ops, idx) == \E i \in DOMAIN ops : ops[i].index = idx

Below(ops, idx) ==
    LET Test(e) == e.index < idx IN SelectSeq(ops, Test)

AtLeast(ops, idx) ==
    LET Test(e) == e.index >= idx IN SelectSeq(ops, Test)

\* The staged log after append_raft_log(op), as the claim states it.
Appended(ops, op) ==
    IF HasIndex(ops, op.index - 1) THEN Below(ops, op.index) \o <<op>>
    ELSE <<op>>

\* C17: append_raft_log(op) on a staged log that holds an entry with index
\* op.index - 1 leaves the former entries with index < op.index followed by
\* op; on any other staged log it leaves only op.
C17_AppendRaftLog ==
    [][IsCall("append_raft_log") =>
          /\ rb'.self.raft_logs = Appended(rb.self.raft_logs, rb'.op[2])
          /\ rb'.self.states = rb.self.states
          /\ rb'.self.truncated_idx = rb.self.truncated_idx]_vars

\* An append has cut a staged log back to its only entry.
C17_Witness ==
    /\ rb.op = <<"append_raft_log", RaftLogOp(3, 2)>>
    /\ rb.self.raft_logs = <<RaftLogOp(3, 2)>>
    /\ rb.self.truncated_idx = 2

Consecutive(ops) == \A i \in 1..Len(ops) - 1 : ops[i + 1].index = ops[i].index + 1

CountMatches(ops) ==
    ops # <<>> => Len(ops) = ops[Len(ops)].index + 1 - Head(ops).index

\* C18: in every reachable state of a RegionBatch each staged op has the
\* index of its predecessor plus one, and the number of staged ops is
\* back.index + 1 - front.index.
C18_StagedConsecutive ==
    /\ Consecutive(rb.self.raft_logs)
    /\ CountMatches(rb.self.raft_logs)

C18_Witness ==
    /\ rb.op[1] = "merge"
    /\ Len(rb.op[2].raft_logs) = 2
    /\ Len(rb.self.raft_logs) = MaxIdx
    /\ rb.self.raft_logs[MaxIdx].term # rb.self.raft_logs[1].term

\* C19: truncate(idx) removes the staged ops with index < idx, keeps the
\* staged ops with index >= idx in order and sets truncated_idx to idx; an
\* idx above the last staged index leaves an empty staged log.
C19_Truncate ==
    [][IsCall("truncate") =>
          LET idx == rb'.op[2]
              old == rb.self.raft_logs
          IN /\ rb'.self.raft_logs = AtLeast(old, idx)
             /\ rb'.self.truncated_idx = idx
             /\ rb'.self.states = rb.self.states
             /\ (old # <<>> /\ idx > old[Len(old)].index
                   => rb'.self.raft_logs = <<>>)]_vars

\* A truncate has kept the staged ops from its index on.
C19_Witness ==
    /\ rb.op = <<"truncate", 2>>
    /\ Len(rb.self.raft_logs) = 2
    /\ Head(rb.self.raft_logs).index = 2
    /\ rb.self.truncated_idx = 2

RECURSIVE AppendedAll(_, _)
AppendedAll(ops, more) ==
    IF more = <<>> THEN ops ELSE AppendedAll(Appended(ops, Head(more)), Tail(more))

\* C20: merge(other) leaves the union of the two state maps with the value
\* of other on every common key, the greater of the two truncated_idx, and
\* the staged log that append_raft_log gives for the ops of other in order.
C20_Merge ==
    [][IsCall("merge") =>
          LET other == rb'.op[2]
              new == rb'.self
          IN /\ DOMAIN new.states = DOMAIN rb.self.states \cup DOMAIN other.states
             /\ \A k \in DOMAIN other.states : new.states[k] = other.states[k]
             /\ \A k \in DOMAIN rb.self.states \ DOMAIN other.states :
                    new.states[k] = rb.self.states[k]
             /\ new.truncated_idx = Max(rb.self.truncated_idx, other.truncated_idx)
             /\ new.raft_logs = AppendedAll(rb.self.raft_logs, other.raft_logs)
             /\ new.region_id = rb.self.region_id]_vars

\* A merge whose other has a lower truncated_idx, states and ops.
C20_Witness ==
    /\ rb.op[1] = "merge"
    /\ rb.op[2].truncated_idx < rb.self.truncated_idx
    /\ rb.op[2].raft_logs # <<>>
    /\ DOMAIN rb.op[2].states # {}
    /\ DOMAIN rb.self.states # DOMAIN rb.op[2].states

(***************************************************************************)
(* The WAL mutex and the task channel, checked under SpecConc.             *)
(***************************************************************************)
\* Thread t is in persist at the send of Rotate, and the channel is full.
BlockedSending(t) == th[t].pc = "send" /\ Len(tasks) = cap

\* C14: a thread that is sending Rotate, or blocked in that send by a full
\* channel, does not hold the WAL mutex; the holder of the mutex is a thread
\* before its flush, which no channel blocks, so that a thread calling
\* persist while another is blocked sending can take the mutex.
C14_NoLockWhileSending ==
    /\ \A t \in Threads : th[t].pc = "send" => writer.owner # t
    /\ writer.owner # 0 => th[writer.owner].pc = "flush"
    /\ \A t \in Threads : th[t].pc = "flush" => ENABLED RfEngine_persist_flush(t)
    /\ \A t, u \in Threads :
         BlockedSending(t) /\ th[u].pc = "persist" /\ writer.owner = 0
            => ENABLED RfEngine_persist_lock(u)

\* Thread 1 is blocked sending Rotate while thread 2 holds the mutex for its
\* flush.
C14_Witness ==
    /\ BlockedSending(1)
    /\ th[2].pc = "flush"
    /\ writer.owner = 2

(***************************************************************************)
(* SpecStop: one caller using write on one region, then stop_worker, with  *)
(* a task channel that holds DrainCap tasks.                               *)
(***************************************************************************)
InitStop == EngineInit(DrainCap)

NextStop ==
    \/ \E w \in RegionInputs : RfEngine_write(1, w)
    \/ RfEngine_persist_lock(1)
    \/ RfEngine_persist_flush(1)
    \/ RfEngine_persist_send(1)
    \/ Worker_run
    \/ RfEngine_stop_worker_send
    \/ RfEngine_stop_worker_join

SpecStop == InitStop /\ [][NextStop]_vars

\* The sealed epochs, in order.
Sealed == [i \in 1..(Len(disk) - 1) |-> i]

\* While stop_worker waits, Close is the last task of the channel; when the
\* worker has exited the channel is empty; stop_worker has returned only
\* when the worker has exited, with every Rotate processed.
Drained ==
    /\ phase.state = "stopping" /\ worker.alive =>
         /\ tasks # <<>>
         /\ \A i \in 1..Len(tasks) : (tasks[i] = CloseTask) = (i = Len(tasks))
    /\ phase.state \in {"stopping", "stopped"} /\ ~worker.alive => tasks = <<>>
    /\ phase.state = "stopped" => ~worker.alive /\ worker.epoches = Sealed

\* The worker exits in a step that takes Close from the channel and leaves
\* the channel empty; any other step of the worker takes the first task.
ExitsAtClose ==
    /\ worker.alive /\ ~worker'.alive => Head(tasks) = CloseTask /\ tasks' = <<>>
    /\ worker.alive /\ Len(tasks') < Len(tasks) =>
         /\ tasks' = Tail(tasks)
         /\ Head(tasks) # CloseTask => worker'.alive

\* C15: every task sent before the Close of stop_worker is processed by the
\* worker before it exits, and stop_worker returns only after the worker
\* has exited.
C15_ShutdownDrains == []Drained /\ [][ExitsAtClose]_vars

\* Close is sent behind a task that the worker has not taken yet.
C15_Witness ==
    /\ phase.state = "stopping"
    /\ Len(tasks) = DrainCap
    /\ tasks[Len(tasks)] = CloseTask
    /\ worker.alive

(***************************************************************************)
(* Rotation, checked under SpecWal.                                        *)
(***************************************************************************)
\* The step is the flush of persist by thread 1.
IsFlush == th[1].pc = "flush" /\ RfEngine_persist_flush(1)

\* The step is the send of Rotate by thread 1.
IsSend == th[1].pc = "send" /\ RfEngine_persist_send(1)

\* The size of the epoch file the flush wrote to, after the flush.
FlushedSize == FileSize(disk'[writer.epoch_id])

\* The step closes the current epoch file and opens the next one.
Rotates ==
    /\ Len(disk') = Len(disk) + 1
    /\ writer'.epoch_id = writer.epoch_id + 1
    /\ disk'[writer'.epoch_id] = <<>>

\* C16: the flush of a persist rotates the WAL if and only if the epoch
\* file it wrote to has wal_size bytes or more after the flush; without a
\* rotation the epoch and the files stay, and the current epoch file is
\* below wal_size after every flush; persist sends Rotate for the closed
\* epoch exactly after a rotation.
C16_RotatesAtCap ==
    [][/\ IsFlush =>
            /\ Rotates = (FlushedSize >= WalSize)
            /\ ~Rotates => /\ Len(disk') = Len(disk)
                           /\ writer'.epoch_id = writer.epoch_id
            /\ FileSize(disk'[writer'.epoch_id]) < WalSize
            /\ (th'[1].pc = "send") = Rotates
       /\ IsSend => /\ tasks' = Append(tasks, RotateTask(writer.epoch_id - 1))
                    /\ FileSize(disk[writer.epoch_id - 1]) >= WalSize]_vars

\* A flush has left the current epoch file below the cap, and an earlier
\* one was closed with exactly wal_size bytes.
C16_Witness ==
    /\ Len(disk) = 2
    /\ disk[2] # <<>>
    /\ th[1].pc = "idle"
    /\ Len(acked) = MaxWrites
    /\ phase.from = "fresh"
    /\ FileSize(disk[1]) = WalSize

(***************************************************************************)
(* truncated_idx of a region, checked under Spec.                          *)
(***************************************************************************)
\* truncated_idx of region r in the map m, 0 for a region that apply has
\* yet to create.
TruncatedIdx(m, r) == IF r \in DOMAIN m THEN m[r].truncated_idx ELSE 0

\* C21: truncated_idx of a region never decreases; an apply whose batch has
\* a greater truncated_idx adopts it, and an apply whose batch has a smaller
\* or equal one (0 when the batch does not truncate) leaves it unchanged.
C21_TruncatedIdxMonotone ==
    [][/\ \A r \in DOMAIN regions :
            /\ r \in DOMAIN regions'
            /\ regions'[r].truncated_idx >= regions[r].truncated_idx
       /\ IsApply =>
            \A r \in DOMAIN th'[1].wb :
                LET old == TruncatedIdx(regions, r)
                    b == th'[1].wb[r]
                IN IF b.truncated_idx > old
                   THEN regions'[r].truncated_idx = b.truncated_idx
                   ELSE regions'[r].truncated_idx = old]_vars

\* An apply whose batch truncates below the region's truncated_idx.
C21_Witness ==
    /\ th[1].pc = "applied"
    /\ 1 \in DOMAIN th[1].wb
    /\ th[1].wb[1].truncated_idx > 0
    /\ regions[1].truncated_idx > th[1].wb[1].truncated_idx

(***************************************************************************)
(* The Truncate tasks of apply, checked under Spec.                        *)
(***************************************************************************)
\* The region r as RegionData::apply finds it: the entry of the map, or the
\* region get_or_init_region_data creates.
RegionBefore(r) == IF r \in DOMAIN regions THEN regions[r] ELSE RegionData_new(r)

\* The Truncate tasks that the step sent for region r.
SentFor(r) ==
    SelectSeq(Sent, LAMBDA x : x.type = "Truncate" /\ x.region_id = r)

\* C22: apply sends a Truncate task for a region of the batch if and only if
\* RegionData::apply returned a discarded block for it; the task carries the
\* region's id, its truncated_idx after the apply and the discarded blocks,
\* which hold every entry that left the log and only entries that were in
\* it; an apply that discards nothing sends no task.
C22_TruncateTask ==
    [][IsApply =>
          /\ \A i \in DOMAIN Sent :
                Sent[i].type = "Truncate" /\ Sent[i].region_id \in DOMAIN th'[1].wb
          /\ \A r \in DOMAIN th'[1].wb :
                LET pre == RegionBefore(r)
                    res == RegionData_apply(pre, th'[1].wb[r])
                IN /\ (SentFor(r) # <<>>) = (res.truncated # <<>>)
                   /\ Len(SentFor(r)) <= 1
                   /\ SentFor(r) # <<>> =>
                        /\ SentFor(r)[1].truncated_index = regions'[r].truncated_idx
                        /\ SentFor(r)[1].truncated = res.truncated
                        /\ \A j \in DOMAIN res.truncated : res.truncated[j] # <<>>
                   /\ EntrySet(pre.raft_logs) \ EntrySet(regions'[r].raft_logs)
                        \subseteq EntrySet(BlocksFor(r))
                   /\ EntrySet(BlocksFor(r)) \subseteq EntrySet(pre.raft_logs)]_vars

\* An apply that truncated a prefix and cut a tail sent both in one task.
C22_Witness ==
    /\ th[1].pc = "applied"
    /\ th[1].sent = 1
    /\ th[1].wb[1].truncated_idx > 0
    /\ th[1].wb[1].raft_logs # <<>>
    /\ tasks # <<>>
    /\ LET task == tasks[Len(tasks)]
       IN /\ task.truncated_index = regions[1].truncated_idx
          /\ \E e \in EntrySet(task.truncated) : e.index <= task.truncated_index
          /\ \E e \in EntrySet(task.truncated) : e.index > task.truncated_index

(***************************************************************************)
(* SpecClosed: one caller using apply on one region while a clone of the   *)
(* engine stops the worker.  The send of line 288 is unwrapped: once the   *)
(* worker is gone it panics, inside the write guard of the region          *)
(* (line 284), which poisons the RwLock of the region when the panic       *)
(* unwinds and ends the process when the build aborts on a panic.          *)
(***************************************************************************)
Builds == {"unwind", "abort"}

\* Lines 282-297, the regions of the batch taken in the given order, up to
\* the first panic: write().unwrap() on a poisoned lock, or send().unwrap()
\* on a channel whose receiver is gone.
RECURSIVE ApplyUntilPanic(_, _, _, _, _, _)
ApplyUntilPanic(m, c, p, w, order, alive) ==
    IF order = <<>>
    THEN [regions |-> m, tasks |-> c, poisoned |-> p, panicked |-> FALSE]
    ELSE LET r == Head(order)
             one == ApplyRegion(m, <<>>, r, w[r])
         IN IF r \in p
            THEN [regions |-> m, tasks |-> c, poisoned |-> p, panicked |-> TRUE]
            ELSE IF one.tasks # <<>> /\ ~alive
            THEN [regions |-> one.regions, tasks |-> c,
                  poisoned |-> p \cup {r}, panicked |-> TRUE]
            ELSE ApplyUntilPanic(one.regions, c \o one.tasks, p, w, Tail(order),
                                 alive)

\* apply(wb) with its panics.
RfEngine_apply_unwrap(t, w, build) ==
    /\ Running
    /\ th[t].pc \in {"idle", "applied", "panicked"}
    /\ \E order \in Orders(DOMAIN w) :
         LET res == ApplyUntilPanic(regions, tasks, poisoned, w, order, worker.alive)
         IN /\ Len(res.tasks) <= cap
            /\ IF res.panicked /\ build = "abort"
               THEN /\ phase' = [phase EXCEPT !.state = "crashed"]
                    /\ regions' = NoRegions
                    /\ tasks' = <<>>
                    /\ worker' = [worker EXCEPT !.alive = FALSE]
                    /\ poisoned' = {}
                    /\ th' = [th EXCEPT ![t] = [IdleThread EXCEPT !.wb = w]]
               ELSE /\ regions' = res.regions
                    /\ tasks' = res.tasks
                    /\ poisoned' = res.poisoned
                    /\ th' = [th EXCEPT ![t] =
                                [IdleThread EXCEPT
                                    !.pc = IF res.panicked THEN "panicked"
                                           ELSE "applied",
                                    !.wb = w,
                                    !.sent = Len(res.tasks) - Len(tasks)]]
                    /\ UNCHANGED <<phase, worker>>
    /\ UNCHANGED <<disk, writer, iter, created, lastWriter, released, acked,
                   nwrites, cap, rb, lastRead, kvstats>>

\* stop_worker on a clone of the engine: Close is sent (line 425); this
\* handle stays in use.
RfEngine_stop_worker_clone ==
    /\ Running
    /\ worker.alive
    /\ \A i \in DOMAIN tasks : tasks[i] # CloseTask
    /\ Len(tasks) < cap
    /\ tasks' = Append(tasks, CloseTask)
    /\ UNCHANGED <<aux, regions, worker, th, disk, writer, phase, iter, created,
                   lastWriter, released, acked, nwrites>>

NextClosed ==
    \/ \E w \in RegionInputs, build \in Builds : RfEngine_apply_unwrap(1, w, build)
    \/ RfEngine_stop_worker_clone
    \/ Worker_run

SpecClosed == Init /\ [][NextClosed]_vars

\* The step is apply(w) by thread 1 after the worker has exited.
IsApplyClosed(w) ==
    /\ ~worker.alive
    /\ th'[1].wb = w
    /\ \E build \in Builds : RfEngine_apply_unwrap(1, w, build)

\* RegionData::apply returns a discarded block for a region of w.
Discards(w) ==
    \E r \in DOMAIN w : RegionData_apply(RegionBefore(r), w[r]).truncated # <<>>

\* The caller of the step panicked.
CallerPanicked == th'[1].pc = "panicked" \/ phase'.state = "crashed"

\* After the step the reads of region r return what b wrote.
VisibleAfter(r, b) == r \notin poisoned' /\ ReadsOwnWrites(regions', r, b)

\* C23: after the worker has exited, an apply that discards a block panics
\* its caller on the failed send of Truncate, and an apply that discards no
\* block completes and its writes are visible to reads.
C23_AfterWorkerExit ==
    [][\A w \in RegionInputs :
          IsApplyClosed(w) =>
             IF Discards(w) THEN CallerPanicked
             ELSE /\ th'[1].pc = "applied"
                  /\ \A r \in DOMAIN w : VisibleAfter(r, w[r])]_vars

\* C23 for the batches none of whose regions has a poisoned lock.
C23_Unpoisoned ==
    [][\A w \in RegionInputs :
          IsApplyClosed(w) /\ DOMAIN w \cap poisoned = {} =>
             IF Discards(w) THEN CallerPanicked
             ELSE /\ th'[1].pc = "applied"
                  /\ \A r \in DOMAIN w : VisibleAfter(r, w[r])]_vars

\* An apply that discards no block has panicked on a poisoned lock.
C23_PoisonedWitness ==
    /\ ~worker.alive
    /\ th[1].pc = "panicked"
    /\ 1 \in poisoned
    /\ th[1].wb[1].raft_logs = <<>>
    /\ th[1].wb[1].truncated_idx = 0

(***************************************************************************)
(* SpecFail: one caller using write on one region, with flushes that fail. *)
(***************************************************************************)
\* What a failed flush leaves of the buffered frames in the epoch file: some
\* of them, and possibly a torn one after them.
FailedDisk ==
    {WALWriter_write(disk, writer, Frames(SubSeq(writer.buf, 1, n))) :
        n \in 0..Len(writer.buf)}
      \cup {WALWriter_write(disk, writer,
                Append(Frames(SubSeq(writer.buf, 1, n)), TornFrame)) :
            n \in 0..(Len(writer.buf) - 1)}

\* A faulty variant of PersistOnError: the guard outlives the return.
PersistOnError_Locked(w) == w

\* Line 268: on an error of flush the ? returns it; the guard of the WAL
\* mutex is dropped with the frame of persist.
PersistOnError(w) == [w EXCEPT !.owner = 0]

\* Line 268 with a flush that fails: persist returns the error.  The writer
\* keeps or loses its buffer.
RfEngine_persist_flush_fails(t) ==
    /\ Running
    /\ th[t].pc = "flush"
    /\ disk' \in FailedDisk
    /\ \E buf \in {<<>>, writer.buf} :
         writer' = PersistOnError([writer EXCEPT !.buf = buf])
    /\ th' = [th EXCEPT ![t].pc = "idle"]
    /\ UNCHANGED <<aux, regions, tasks, worker, phase, iter, created, lastWriter,
                   released, acked, nwrites>>

NextFail ==
    \/ \E w \in RegionInputs : RfEngine_write(1, w)
    \/ RfEngine_persist_lock(1)
    \/ RfEngine_persist_flush(1)
    \/ RfEngine_persist_flush_fails(1)
    \/ RfEngine_persist_send(1)
    \/ Worker_run

SpecFail == Init /\ [][NextFail]_vars

\* The step is a flush of thread 1 that fails.
IsFailedFlush == th[1].pc = "flush" /\ RfEngine_persist_flush_fails(1)

\* C24: when the flush inside persist fails, persist returns with the WAL
\* mutex released and without sending Rotate, and the regions are as apply
\* left them: what the batch wrote is still read.
C24_FlushFails ==
    [][IsFailedFlush =>
          /\ writer'.owner = 0
          /\ th'[1].pc = "idle"
          /\ tasks' = tasks
          /\ regions' = regions
          /\ acked' = acked
          /\ \A r \in DOMAIN th[1].wb :
                ReadsOwnWrites(regions', r, th[1].wb[r])]_vars

\* A write whose flush failed has returned, after a write that was persisted.
C24_Witness ==
    /\ th[1].pc = "idle"
    /\ nwrites = MaxWrites
    /\ Len(acked) = 1
    /\ writer.owner = 0
    /\ 1 \in DOMAIN regions
    /\ regions[1].raft_logs # <<>>

(***************************************************************************)
(* SpecMiss: one caller using apply, the reads and the dependents on two   *)
(* region ids, also on ids that are not in the region map.  lastRead holds *)
(* the call, whether the region was in the map, and what was returned.     *)
(***************************************************************************)
\* RaftLogs::size: the sum of the encoded lengths of the entries.
RaftLogs_size(l) ==
    SumSeq([i \in 1..Len(RaftLogs_entries(l)) |->
               RaftLogOp_encoded_len(RaftLogs_entries(l)[i])])

\* Lines 580-598.
RegionData_get_stats(rd) ==
    LET size == RaftLogs_size(rd.raft_logs)
        first_idx == RaftLogs_first_index(rd.raft_logs)
        last_idx == RaftLogs_last_index(rd.raft_logs)
        num_logs == IF last_idx # 0 THEN last_idx - first_idx + 1 ELSE 0
    IN [id |-> rd.region_id, size |-> size, num_logs |-> num_logs,
        num_states |-> Cardinality(DOMAIN rd.states), first_idx |-> first_idx,
        last_idx |-> last_idx, truncated_idx |-> rd.truncated_idx,
        dep_count |-> Cardinality(rd.dependents)]

\* RegionStats::default().
RegionStats_default ==
    [id |-> 0, size |-> 0, num_logs |-> 0, num_states |-> 0, first_idx |-> 0,
     last_idx |-> 0, truncated_idx |-> 0, dep_count |-> 0]

\* Lines 499-505.
RfEngine_get_region_stats(m, region_id) ==
    IF region_id \in DOMAIN m THEN RegionData_get_stats(m[region_id])
    ELSE RegionStats_default

\* A faulty variant of AddDependent: the region is created when it is missing.
AddDependent_Init(m, region_id, dependent_id) ==
    [RfEngine_get_or_init_region_data(m, region_id)
        EXCEPT ![region_id].dependents = @ \cup {dependent_id}]

\* Lines 437-451: the region map after add_dependent.
AddDependent(m, region_id, dependent_id) ==
    IF region_id \notin DOMAIN m THEN m
    ELSE [m EXCEPT ![region_id].dependents = @ \cup {dependent_id}]

\* Lines 453-466: the region map after remove_dependent.
RemoveDependent(m, region_id, dependent_id) ==
    IF region_id \notin DOMAIN m THEN m
    ELSE [m EXCEPT ![region_id].dependents = @ \ {dependent_id}]

\* The record of a call on region_id that returned result.
CallOf(name, region_id, result) ==
    [call |-> name, region_id |-> region_id,
     present |-> region_id \in DOMAIN regions, result |-> result]

\* A read: the engine is left as it is.
ReadCall(name, region_id, result) ==
    /\ Running
    /\ lastRead = NoCall
    /\ lastRead' = CallOf(name, region_id, result)
    /\ UNCHANGED <<regions, tasks, worker, th, disk, writer, phase, iter,
                   created, lastWriter, released, acked, nwrites, cap, rb, poisoned, kvstats>>

RfEngine_get_term_call(region_id, index) ==
    ReadCall("get_term", region_id, RfEngine_get_term(regions, region_id, index))

RfEngine_get_last_index_call(region_id) ==
    ReadCall("get_last_index", region_id, RfEngine_get_last_index(regions, region_id))

RfEngine_get_state_call(region_id, key) ==
    ReadCall("get_state", region_id, RfEngine_get_state(regions, region_id, key))

RfEngine_get_last_state_with_prefix_miss(region_id, prefix, build) ==
    ReadCall("get_last_state_with_prefix", region_id,
             RfEngine_get_last_state_with_prefix(regions, region_id, prefix, build))

RfEngine_iterate_region_states_call(region_id, desc) ==
    ReadCall("iterate_region_states", region_id,
             RfEngine_iterate_region_states(regions, region_id, desc))

RfEngine_get_region_stats_call(region_id) ==
    ReadCall("get_region_stats", region_id,
             RfEngine_get_region_stats(regions, region_id))

RfEngine_add_dependent_call(region_id, dependent_id) ==
    /\ Running
    /\ lastRead = NoCall
    /\ lastRead' = CallOf("add_dependent", region_id, "unit")
    /\ regions' = AddDependent(regions, region_id, dependent_id)
    /\ released' = released \ {region_id}
    /\ UNCHANGED <<tasks, worker, th, disk, writer, phase, iter, created,
                   lastWriter, acked, nwrites, cap, rb, poisoned, kvstats>>

RfEngine_remove_dependent_call(region_id, dependent_id) ==
    /\ Running
    /\ lastRead = NoCall
    /\ lastRead' = CallOf("remove_dependent", region_id, "unit")
    /\ regions' = RemoveDependent(regions, region_id, dependent_id)
    /\ released' = IF region_id \in DOMAIN regions
                      /\ regions[region_id].dependents = {dependent_id}
                   THEN released \cup {region_id} ELSE released
    /\ UNCHANGED <<tasks, worker, th, disk, writer, phase, iter, created,
                   lastWriter, acked, nwrites, cap, rb, poisoned, kvstats>>

\* The inputs of SpecMiss: batches of one builder call on either region.
MissInputs == WbBuild(1, Regions, EntriesOf({1})) \ {WriteBatch_new}

\* apply(wb) between two calls, MaxWrites times at most.
ApplyBetweenCalls(w) == lastRead = NoCall /\ ApplyWhole(1, w, "applied", TRUE)

NextMiss ==
    \/ \E w \in MissInputs : ApplyBetweenCalls(w)
    \/ ReadDone
    \/ Worker_run
    \/ \E r \in Regions :
         \/ \E index \in 1..MaxIdx : RfEngine_get_term_call(r, index)
         \/ RfEngine_get_last_index_call(r)
         \/ \E key \in StateKeys : RfEngine_get_state_call(r, key)
         \/ \E prefix \in {<<>>, <<1>>, <<ByteMax>>}, build \in {"debug", "release"} :
              RfEngine_get_last_state_with_prefix_miss(r, prefix, build)
         \/ \E desc \in BOOLEAN : RfEngine_iterate_region_states_call(r, desc)
         \/ RfEngine_get_region_stats_call(r)
         \/ \E d \in DependentIds : RfEngine_add_dependent_call(r, d)
         \/ \E d \in DependentIds : RfEngine_remove_dependent_call(r, d)

SpecMiss == Init /\ [][NextMiss]_vars

\* What a call returns for a region id that is not in the map: None, no
\* call of the callback, the default stats, or nothing.
MissResult(name) ==
    CASE name \in {"get_term", "get_last_index", "get_state"} -> None
      [] name = "get_last_state_with_prefix" -> Returned(None)
      [] name = "iterate_region_states" -> <<>>
      [] name = "get_region_stats" -> RegionStats_default
      [] OTHER -> "unit"

\* C25: get_term, get_last_index, get_state, get_last_state_with_prefix,
\* iterate_region_states, get_region_stats, add_dependent and
\* remove_dependent on a region id that is not in the region map leave the
\* map unchanged and return None, the default, or Ok without a call of the
\* callback; a region enters the map only in a step of apply.
C25_OnlyApplyCreates ==
    [][/\ (lastRead = NoCall /\ lastRead' # NoCall /\ ~lastRead'.present) =>
            /\ regions' = regions
            /\ lastRead'.result = MissResult(lastRead'.call)
       /\ DOMAIN regions' # DOMAIN regions =>
            /\ lastRead' = NoCall
            /\ th'[1].pc = "applied"
            /\ DOMAIN regions' \ DOMAIN regions \subseteq DOMAIN th'[1].wb
            /\ \A r \in DOMAIN regions' \ DOMAIN regions :
                  regions'[r].dependents = {}]_vars

\* add_dependent returned for a region that is not in the map, while the
\* other region is in it.
C25_Witness ==
    /\ lastRead # NoCall
    /\ lastRead.call = "add_dependent"
    /\ lastRead.region_id = 2
    /\ ~lastRead.present
    /\ DOMAIN regions = {1}

(***************************************************************************)
(* The Rotate tasks, checked under SpecConc.                               *)
(***************************************************************************)
Count(q, x) == Cardinality({i \in DOMAIN q : q[i] = x})

\* How often Rotate of epoch e was or is about to be sent: by the threads at
\* the send, in the channel, and taken by the worker.
Reports(e) ==
    Cardinality({t \in Threads : th[t].pc = "send" /\ th[t].epoch_id = e})
      + Count(tasks, RotateTask(e))
      + Count(worker.epoches, e)

\* C26: for each epoch that the flush of a persist sealed, one Rotate task
\* is sent and it names that epoch, which is the epoch the writer had when
\* the persist took the WAL mutex; no Rotate is sent for the current epoch,
\* nor by a persist whose flush did not rotate.
C26_RotateOnce ==
    /\ \A e \in 1..(Len(disk) - 1) : Reports(e) = 1
    /\ Reports(Len(disk)) = 0
    /\ Reports(Len(disk) + 1) = 0
    /\ Reports(0) = 0
    /\ \A i \in DOMAIN tasks :
          tasks[i].type = "Rotate" => tasks[i].epoch_id \in 1..(Len(disk) - 1)
    /\ \A i \in DOMAIN worker.epoches : worker.epoches[i] \in 1..(Len(disk) - 1)

\* Two threads sealed an epoch each and are both at the send of Rotate.
C26_Witness ==
    /\ Len(disk) = 3
    /\ th[1].pc = "send"
    /\ th[2].pc = "send"
    /\ th[1].epoch_id = 2
    /\ th[2].epoch_id = 1

(***************************************************************************)
(* SpecRestart: one caller using write on one region and add_dependent,    *)
(* then stop_worker and open.  A batch that truncates is written only      *)
(* while the region has a dependent, and no dependent is removed.          *)
(***************************************************************************)
\* write(wb), with wb truncating only under the protection of a dependent.
RfEngine_write_protected(w) ==
    /\ \A r \in DOMAIN w :
          w[r].truncated_idx > 0 =>
             r \in DOMAIN regions /\ regions[r].dependents # {}
    /\ RfEngine_write(1, w)

NextRestart ==
    \/ \E w \in RegionInputs : RfEngine_write_protected(w)
    \/ RfEngine_persist_lock(1)
    \/ RfEngine_persist_flush(1)
    \/ RfEngine_persist_send(1)
    \/ Worker_run
    \/ \E d \in DependentIds : RfEngine_add_dependent(1, d)
    \/ RfEngine_stop_worker_send
    \/ RfEngine_stop_worker_join
    \/ RfEngine_open

SpecRestart == Init /\ [][NextRestart]_vars

\* The step is open on the directory of a stopped engine; regions is the
\* memory of the engine that was stopped, regions' the memory after open.
IsReopen == phase.state = "stopped" /\ phase'.state = "open"

\* The entries of region r that a dependent kept in memory at or below
\* truncated_idx.
Protected(r) ==
    {e \in EntrySet(regions[r].raft_logs) : e.index <= regions[r].truncated_idx}

\* C27: a region that had a dependent when the batches advancing its
\* truncated_idx were written has, after stop_worker and open, every entry
\* at or below truncated_idx that was in its log before the close, and
\* get_term reads it.
C27_ProtectionSurvives ==
    [][IsReopen =>
          \A r \in DOMAIN regions :
             regions[r].dependents # {} =>
                \A e \in Protected(r) :
                   RfEngine_get_term(regions', r, e.index) = Some(e.term)]_vars

\* What does survive the restart: truncated_idx, and the entries above it.
C27_TruncatedIdxSurvives ==
    [][IsReopen =>
          \A r \in DOMAIN regions :
             /\ r \in DOMAIN regions'
             /\ regions'[r].truncated_idx = regions[r].truncated_idx
             /\ regions'[r].dependents = {}
             /\ \A e \in EntrySet(regions[r].raft_logs) \ Protected(r) :
                   RfEngine_get_term(regions', r, e.index) = Some(e.term)]_vars

\* The engine was reopened and the entries a dependent had protected are not
\* in the log of the region.
C27_LostWitness ==
    /\ phase.state = "open"
    /\ phase.from = "reopen"
    /\ 1 \in DOMAIN regions
    /\ regions[1].truncated_idx = 2
    /\ regions[1].raft_logs = <<>>
    /\ Len(acked) = MaxWrites
    /\ acked[1].wb[1].raft_logs # <<>>
    /\ acked[2].wb[1].raft_logs = <<>>

(***************************************************************************)
(* The stats aggregator (kvengine stats.rs).  kvstats.input is the vector  *)
(* of ShardStats a caller built, kvstats.output what get_engine_stats      *)
(* returned for it.                                                        *)
(***************************************************************************)
\* The number of column families.
NUM_CFS == 3

\* The length of the per-level vectors of EngineStats::new (lines 31-34).
NumLevels == 3

\* Line 89: shard_stats.truncate(10).
TopN == 10

LevelStats(level, num_tables, data_size) ==
    [level |-> level, num_tables |-> num_tables, data_size |-> data_size]

CFStats(levels) == [levels |-> levels]

\* ShardStats, the fields get_engine_stats reads.
ShardStats(id, ms, ls, cfs) ==
    [id |-> id, active |-> ms > ls, compacting |-> FALSE, flushed |-> TRUE,
     mem_table_count |-> ms, mem_table_size |-> ms,
     l0_table_count |-> 1, l0_table_size |-> ls,
     partial_l0s |-> 0, partial_tbls |-> 1, cfs |-> cfs]

\* ShardStats::default(), which get_shard_stat returns for a shard that the
\* engine does not have (lines 47-51): no cfs.
ShardStats_default ==
    [id |-> 0, active |-> FALSE, compacting |-> FALSE, flushed |-> FALSE,
     mem_table_count |-> 0, mem_table_size |-> 0,
     l0_table_count |-> 0, l0_table_size |-> 0,
     partial_l0s |-> 0, partial_tbls |-> 0, cfs |-> <<>>]

\* The ShardStats a caller passes: two shards as Shard::get_stats builds
\* them, one with more in its memtables and one with more in L0, and the
\* default.
ShardKinds(id) ==
    {ShardStats(id, 1, 2, [cf \in 1..NUM_CFS |-> CFStats(<<LevelStats(1, 1, 4)>>)]),
     ShardStats(id, 2, 0, [cf \in 1..NUM_CFS |-> CFStats(<<>>)]),
     ShardStats_default}

\* Lines 79-83, with a and b compared as b_size.cmp(&a_size).
WriteSize(shard) == shard.mem_table_size + shard.l0_table_size

RECURSIVE SortInsert(_, _)
\* sort_by is stable: x goes behind every shard that is not smaller.
SortInsert(sorted, x) ==
    IF sorted = <<>> THEN <<x>>
    ELSE IF WriteSize(Head(sorted)) >= WriteSize(x)
         THEN <<Head(sorted)>> \o SortInsert(Tail(sorted), x)
         ELSE <<x>> \o sorted

RECURSIVE SortByWriteSize(_)
SortByWriteSize(shards) ==
    IF shards = <<>> THEN <<>>
    ELSE SortInsert(SortByWriteSize(SubSeq(shards, 1, Len(shards) - 1)),
                    shards[Len(shards)])

\* Vec::truncate.
Truncate(q, n) == IF Len(q) > n THEN SubSeq(q, 1, n) ELSE q

CountIf(shards, flag) == Cardinality({i \in DOMAIN shards : shards[i][flag]})

SumField(shards, field) == SumSeq([i \in DOMAIN shards |-> shards[i][field]])

\* Lines 72-80: what the shards add to level i of column family cf.
LevelField(shard, cf, i, field) ==
    IF i <= Len(shard.cfs[cf].levels) THEN shard.cfs[cf].levels[i][field] ELSE 0

\* Lines 72-80 index shard.cfs[cf] for every cf below NUM_CFS, and the
\* per-level vectors by the position of each level: both panic out of bounds.
IndexPanics(shards) ==
    \E i \in DOMAIN shards :
       \/ Len(shards[i].cfs) < NUM_CFS
       \/ \E cf \in 1..NUM_CFS : Len(shards[i].cfs[cf].levels) > NumLevels

\* Lines 54-91.
Engine_get_engine_stats(shard_stats) ==
    IF IndexPanics(shard_stats) THEN Panicked
    ELSE Returned(
      [num_shards |-> Len(shard_stats),
       num_active_shards |-> CountIf(shard_stats, "active"),
       num_compacting_shards |-> CountIf(shard_stats, "compacting"),
       num_initial_flushed_shard |-> CountIf(shard_stats, "flushed"),
       mem_tables_count |-> SumField(shard_stats, "mem_table_count"),
       mem_tables_size |-> SumField(shard_stats, "mem_table_size"),
       l0_tables_count |-> SumField(shard_stats, "l0_table_count"),
       l0_tables_size |-> SumField(shard_stats, "l0_table_size"),
       partial_l0_count |-> SumField(shard_stats, "partial_l0s"),
       partial_ln_count |-> SumField(shard_stats, "partial_tbls"),
       level_num_files |-> [i \in 1..NumLevels |->
           SumSeq([k \in DOMAIN shard_stats |->
              SumSeq([cf \in 1..NUM_CFS |->
                 LevelField(shard_stats[k], cf, i, "num_tables")])])],
       cfs_num_files |-> [cf \in 1..NUM_CFS |->
           SumSeq([k \in DOMAIN shard_stats |->
              SumSeq([i \in 1..NumLevels |->
                 LevelField(shard_stats[k], cf, i, "num_tables")])])],
       level_total_sizes |-> [i \in 1..NumLevels |->
           SumSeq([k \in DOMAIN shard_stats |->
              SumSeq([cf \in 1..NUM_CFS |->
                 LevelField(shard_stats[k], cf, i, "data_size")])])],
       cf_total_sizes |-> [cf \in 1..NUM_CFS |->
           SumSeq([k \in DOMAIN shard_stats |->
              SumSeq([i \in 1..NumLevels |->
                 LevelField(shard_stats[k], cf, i, "data_size")])])],
       top_10_write |-> Truncate(SortByWriteSize(shard_stats), TopN)])

StatsFrame ==
    UNCHANGED <<regions, tasks, worker, th, disk, writer, phase, iter, created,
                lastWriter, released, acked, nwrites, cap, rb, lastRead, poisoned>>

\* The caller adds the stats of one more shard to its vector; a shard that
\* the engine has gets the next id.
ShardStats_push(shard) ==
    /\ kvstats.output = <<>>
    /\ Len(kvstats.input) < MaxShards
    /\ shard.id \in {ShardStats_default.id, Len(kvstats.input) + 1}
    /\ kvstats' = [kvstats EXCEPT !.input = Append(@, shard)]
    /\ StatsFrame

Engine_get_engine_stats_call ==
    /\ kvstats.output = <<>>
    /\ kvstats' = [kvstats EXCEPT !.output = <<Engine_get_engine_stats(kvstats.input)>>]
    /\ StatsFrame

NextStats ==
    \/ \E shard \in UNION {ShardKinds(id) : id \in 1..MaxShards} : ShardStats_push(shard)
    \/ Engine_get_engine_stats_call

SpecStats == Init /\ [][NextStats]_vars

Min(a, b) == IF a <= b THEN a ELSE b

\* The ranking and the totals of the stats out for the vector shards.
Ranked(shards, out) ==
    LET top == out.top_10_write
    IN /\ Len(top) = Min(TopN, Len(shards))
       /\ \A i \in 1..Len(top) - 1 : WriteSize(top[i]) >= WriteSize(top[i + 1])
       /\ \A i \in DOMAIN top : \E k \in DOMAIN shards : shards[k] = top[i]
       /\ \A w \in {WriteSize(shards[k]) : k \in DOMAIN shards} :
             Cardinality({i \in DOMAIN top : WriteSize(top[i]) = w})
                <= Cardinality({k \in DOMAIN shards : WriteSize(shards[k]) = w})
       /\ top # <<>> =>
             Cardinality({k \in DOMAIN shards :
                            WriteSize(shards[k]) > WriteSize(top[Len(top)])})
                < Len(top) + (IF Len(top) = Len(shards) THEN 1 ELSE 0)
       /\ out.num_shards = Len(shards)
       /\ out.mem_tables_count = SumField(shards, "mem_table_count")
       /\ out.mem_tables_size = SumField(shards, "mem_table_size")
       /\ out.l0_tables_count = SumField(shards, "l0_table_count")
       /\ out.l0_tables_size = SumField(shards, "l0_table_size")

\* C28: for any vector of ShardStats get_engine_stats returns stats whose
\* top_10_write holds min(10, number of shards) shards of the vector in
\* descending order of mem_table_size + l0_table_size, no shard left out
\* being greater than one that is in; num_shards is the length of the vector
\* and the memtable and L0 counts and sizes are the sums over the shards.
C28_Ranking ==
    kvstats.output # <<>> =>
       /\ kvstats.output[1].kind = "ok"
       /\ Ranked(kvstats.input, kvstats.output[1].val)

\* C28 for the vectors whose shards all have NUM_CFS column families of at
\* most NumLevels levels.
C28_WellFormed ==
    (kvstats.output # <<>> /\ ~IndexPanics(kvstats.input)) =>
       /\ kvstats.output[1].kind = "ok"
       /\ Ranked(kvstats.input, kvstats.output[1].val)

\* get_engine_stats ranked more than ten shards.
C28_RankedWitness ==
    /\ kvstats.output # <<>>
    /\ kvstats.output[1].kind = "ok"
    /\ Len(kvstats.input) = MaxShards
    /\ WriteSize(kvstats.input[MaxShards]) > WriteSize(kvstats.input[1])

(***************************************************************************)
(* Shard::get_stats.  Under SpecShard kvstats.input holds the shard, its   *)
(* key range [start, end) and its tables, and kvstats.output the           *)
(* ShardStats that get_stats returned for it.                              *)
(***************************************************************************)
\* The levels of a column family.
ShardLevels == 2

Table(smallest, biggest, size) ==
    [smallest |-> smallest, biggest |-> biggest, size |-> size]

\* Tables over the keys 0..3: inside [1, 3), reaching below 1, and ending
\* at 3; two of them of odd size.
Tables == {Table(1, 2, 3), Table(1, 2, 4), Table(0, 2, 3), Table(2, 3, 5)}

MemTableSizes == {1, 2}

ShardRanges == {<<1, 3>>, <<0, 3>>}

Shard_new(start, end) ==
    [id |-> 1, start |-> start, end |-> end, mem_tbls |-> <<>>, l0_tbls |-> <<>>,
     cfs |-> [cf \in 1..NUM_CFS |->
                [l \in 1..ShardLevels |-> [level |-> l, tables |-> <<>>]]]]

\* Shard::cover_full_table: the table lies within [start, end).
cover_full_table(shard, smallest, biggest) ==
    shard.start <= smallest /\ biggest < shard.end

\* A faulty variant of TableSize: every table counts in full.
TableSize_Full(shard, t) == t.size

\* Lines 153-158 and 170-175: what a table adds to the size.
TableSize(shard, t) ==
    IF cover_full_table(shard, t.smallest, t.biggest) THEN t.size
    ELSE t.size \div 2

\* Lines 153-158 and 170-175: what a table adds to the partial count.
TablePartial(shard, t) ==
    IF cover_full_table(shard, t.smallest, t.biggest) THEN 0 ELSE 1

\* Lines 164-180: the stats of one level.
Shard_level_stats(shard, l) ==
    [level |-> l.level,
     num_tables |-> Len(l.tables),
     data_size |-> SumSeq([i \in DOMAIN l.tables |-> TableSize(shard, l.tables[i])])]

\* Lines 139-212.
Shard_get_stats(shard) ==
    LET mem_table_size == SumSeq(shard.mem_tbls)
        l0_table_size ==
            SumSeq([i \in DOMAIN shard.l0_tbls |-> TableSize(shard, shard.l0_tbls[i])])
        cfs == [cf \in 1..NUM_CFS |->
                  CFStats([k \in DOMAIN shard.cfs[cf] |->
                              Shard_level_stats(shard, shard.cfs[cf][k])])]
    IN [id |-> shard.id,
        mem_table_count |-> Len(shard.mem_tbls),
        mem_table_size |-> mem_table_size,
        l0_table_count |-> Len(shard.l0_tbls),
        l0_table_size |-> l0_table_size,
        cfs |-> cfs,
        total_size |-> mem_table_size + l0_table_size
                       + SumSeq([cf \in 1..NUM_CFS |->
                            SumSeq([k \in DOMAIN cfs[cf].levels |->
                                      cfs[cf].levels[k].data_size])]),
        partial_l0s |->
            SumSeq([i \in DOMAIN shard.l0_tbls |-> TablePartial(shard, shard.l0_tbls[i])]),
        partial_tbls |->
            SumSeq([cf \in 1..NUM_CFS |->
               SumSeq([k \in DOMAIN shard.cfs[cf] |->
                  SumSeq([i \in DOMAIN shard.cfs[cf][k].tables |->
                     TablePartial(shard, shard.cfs[cf][k].tables[i])])])])]

\* The number of tables of every kind that the shard has.
NumTables(shard) ==
    Len(shard.mem_tbls) + Len(shard.l0_tbls)
    + SumSeq([cf \in 1..NUM_CFS |->
         SumSeq([k \in DOMAIN shard.cfs[cf] |-> Len(shard.cfs[cf][k].tables)])])

Shard_open(start, end) ==
    /\ kvstats = NoStats
    /\ kvstats' = [kvstats EXCEPT !.input = <<Shard_new(start, end)>>]
    /\ StatsFrame

\* The shard may change while no stats have been taken of it.
ShardWritable ==
    /\ kvstats.input # <<>>
    /\ kvstats.output = <<>>
    /\ NumTables(kvstats.input[1]) < MaxTables

Shard_add_mem_tbl(size) ==
    /\ ShardWritable
    /\ kvstats' = [kvstats EXCEPT !.input[1].mem_tbls = Append(@, size)]
    /\ StatsFrame

Shard_add_l0_tbl(t) ==
    /\ ShardWritable
    /\ kvstats' = [kvstats EXCEPT !.input[1].l0_tbls = Append(@, t)]
    /\ StatsFrame

Shard_add_level_tbl(cf, l, t) ==
    /\ ShardWritable
    /\ kvstats' = [kvstats EXCEPT !.input[1].cfs[cf][l].tables = Append(@, t)]
    /\ StatsFrame

Shard_get_stats_call ==
    /\ kvstats.input # <<>>
    /\ kvstats.output = <<>>
    /\ kvstats' = [kvstats EXCEPT !.output = <<Shard_get_stats(kvstats.input[1])>>]
    /\ StatsFrame

NextShard ==
    \/ \E range \in ShardRanges : Shard_open(range[1], range[2])
    \/ \E size \in MemTableSizes : Shard_add_mem_tbl(size)
    \/ \E t \in Tables : Shard_add_l0_tbl(t)
    \/ \E cf \in 1..NUM_CFS, l \in 1..ShardLevels, t \in Tables :
          Shard_add_level_tbl(cf, l, t)
    \/ Shard_get_stats_call

SpecShard == Init /\ [][NextShard]_vars

\* Every key of the table is in [start, end) of the shard.
FullyCovered(shard, t) ==
    \A key \in t.smallest..t.biggest : shard.start <= key /\ key < shard.end

\* The sizes of the tables q: in full when covered, half (rounded down)
\* otherwise.
SizeOf(shard, q) ==
    SumSeq([i \in DOMAIN q |->
              IF FullyCovered(shard, q[i]) THEN q[i].size
              ELSE CHOOSE h \in 0..q[i].size : 2 * h \in {q[i].size, q[i].size - 1}])

Partials(shard, q) ==
    Cardinality({i \in DOMAIN q : ~FullyCovered(shard, q[i])})

\* C29: in the stats of a shard every L0 or leveled table that [start, end)
\* fully covers counts its full size and every other table half its size,
\* rounded down, and 1 in partial_l0s (L0) or partial_tbls (leveled);
\* total_size is mem_table_size + l0_table_size + the data_size of all levels.
C29_ShardStats ==
    kvstats.output # <<>> =>
       LET shard == kvstats.input[1]
           stats == kvstats.output[1]
           levels == {<<cf, l>> : cf \in 1..NUM_CFS, l \in 1..ShardLevels}
       IN /\ stats.l0_table_size = SizeOf(shard, shard.l0_tbls)
          /\ stats.partial_l0s = Partials(shard, shard.l0_tbls)
          /\ \A cl \in levels :
                stats.cfs[cl[1]].levels[cl[2]].data_size
                   = SizeOf(shard, shard.cfs[cl[1]][cl[2]].tables)
          /\ stats.partial_tbls
                = SumSeq([cf \in 1..NUM_CFS |->
                     SumSeq([l \in 1..ShardLevels |->
                        Partials(shard, shard.cfs[cf][l].tables)])])
          /\ stats.mem_table_size = SumSeq(shard.mem_tbls)
          /\ stats.total_size
                = stats.mem_table_size + stats.l0_table_size
                  + SumSeq([cf \in 1..NUM_CFS |->
                       SumSeq([l \in 1..ShardLevels |->
                          stats.cfs[cf].levels[l].data_size])])

\* Stats of a shard with a covered L0 table, a partial L0 table and a
\* partial leveled table, the partial ones of odd size.
C29_Witness ==
    /\ kvstats.output # <<>>
    /\ "l0_tbls" \in DOMAIN kvstats.input[1]
    /\ LET shard == kvstats.input[1]
       IN /\ \E i \in DOMAIN shard.l0_tbls : FullyCovered(shard, shard.l0_tbls[i])
          /\ \E i \in DOMAIN shard.l0_tbls :
                ~FullyCovered(shard, shard.l0_tbls[i]) /\ shard.l0_tbls[i].size % 2 = 1
          /\ \E cf \in 1..NUM_CFS, l \in 1..ShardLevels :
                \E i \in DOMAIN shard.cfs[cf][l].tables :
                   /\ ~FullyCovered(shard, shard.cfs[cf][l].tables[i])
                   /\ shard.cfs[cf][l].tables[i].size % 2 = 1
          /\ kvstats.output[1].partial_l0s = 1
          /\ kvstats.output[1].partial_tbls = 1

====
